---- MODULE Spec2Model ----
(***************************************************************************)
(* Manifest-driven validation orchestrators of the repository:             *)
(*   .github/scripts/demo_smoke_runner.py       (command runner)           *)
(*   .github/scripts/live_run_unified_runner.py (surface runner)           *)
(*   scripts/demo/all.sh                        (demo wrapper runner; the  *)
(*       script itself is not among the sources, only its tests are)       *)
(*   .github/scripts/ci_checkout_retry.py       (retry helper)             *)
(*   .github/scripts/ci_helper_parallel_runner.py (worker-pool runner)     *)
(* The loaders are pure functions checked under SpecLoad; the orchestrator *)
(* runs are state machines checked under Spec; the retry helper is checked *)
(* under SpecRetry and the worker-pool runner under SpecPool.              *)
(***************************************************************************)
EXTENDS Integers, Sequences, FiniteSets, TLC

VARIABLES
    \* ---- manifest loading (SpecLoad) ----
    ldForm,     \* "command" | "surface" | "idle": which loader is exercised
    ldRaw,      \* the decoded JSON document handed to the loader
    ldPc,       \* "ready" | "returned" | "raised"
    ldOut,      \* what the caller holds after the call
    \* ---- one orchestrator invocation (Spec) ----
    runner,     \* "smoke" | "live" | "all" | "idle"
    cli,        \* the parsed command line of the invocation
    manifest,   \* decoded JSON manifest read by the python runners
    pc,         \* position of main()
    units,      \* validated unit list main() iterates over
    idx,        \* 1-based loop index of the unit being handled
    child,      \* the one child process main() waits on
    results,    \* ordered result list being appended to
    started,    \* names of units in the order their process was spawned
    fs,         \* output/log directory of the invocation
    report,     \* report written at the end of the run
    exitCode,   \* process exit status of the orchestrator, -1 while running
    \* ---- one invocation of ci_checkout_retry.py (SpecRetry) ----
    rtArgs,     \* parsed command line
    rtPc,       \* position of main()
    rtOutcomes, \* local `outcomes` of main()
    rtReport,   \* local `report` of main()
    rtEmitted,  \* what was printed and written
    rtExit,     \* process exit status, -1 while running
    \* ---- one invocation of ci_helper_parallel_runner.py (SpecPool) ----
    plArgs,     \* parsed command line and the content of the start directory
    plPc,       \* position of main()
    plModules,  \* module_list of run_modules
    plQueue,    \* work items submitted and not yet taken by a worker
    plRunning,  \* modules whose process is running
    plRuns,     \* how many times each module was executed
    plResults,  \* results in the order they were collected
    plReported, \* the list main() reports
    plExit,     \* process exit status, -1 while running
    \* ---- one invocation of live_smoke_matrix.py (SpecMatrix) ----
    mxArgs,     \* parsed command line
    mxPc,       \* position of main()
    mxPlan,     \* local `plan` of main()
    mxFiles,    \* what was appended to the --output and --summary files
    mxStdout,   \* what was printed
    mxExit,     \* process exit status, -1 while running
    \* ---- one call of copy_surface_artifacts (SpecCopy) ----
    cpRoots,    \* artifact_roots, as declared
    cpSources,  \* what each source path is when the call is made
    cpPc,       \* "ready" | "returned" | "raised"
    cpOut       \* the artifacts directory and the returned pair

ldVars  == <<ldForm, ldRaw, ldPc, ldOut>>
runVars == <<runner, cli, manifest, pc, units, idx, child, results, started,
             fs, report, exitCode>>
rtVars  == <<rtArgs, rtPc, rtOutcomes, rtReport, rtEmitted, rtExit>>
plVars  == <<plArgs, plPc, plModules, plQueue, plRunning, plRuns, plResults,
             plReported, plExit>>
mxVars  == <<mxArgs, mxPc, mxPlan, mxFiles, mxStdout, mxExit>>
cpVars  == <<cpRoots, cpSources, cpPc, cpOut>>
vars    == <<ldVars, runVars, rtVars, plVars, mxVars, cpVars>>

(***************************************************************************)
(* Bounds of the model.                                                    *)
(***************************************************************************)
MaxEntries == 2     \* entries of a manifest handed to a loader (SpecLoad)
MaxUnits   == 2     \* units of a manifest that is run (Spec)

(***************************************************************************)
(* Text.  A string is a sequence of one-character strings, so that         *)
(* str.strip() is computed and not assumed.                                *)
(***************************************************************************)
Whitespace == {" "}

RECURSIVE lstrip(_)
lstrip(s) ==
    IF s # <<>> /\ Head(s) \in Whitespace THEN lstrip(Tail(s)) ELSE s

RECURSIVE rstrip(_)
rstrip(s) ==
    IF s # <<>> /\ s[Len(s)] \in Whitespace
    THEN rstrip(SubSeq(s, 1, Len(s) - 1))
    ELSE s

strip(s) == rstrip(lstrip(s))

(***************************************************************************)
(* Decoded JSON.  dict.get(key) of a string-valued key: "none" is an       *)
(* absent key or null, "other" is a value of another JSON type.  For an   *)
(* integer-valued key an absent key is kept apart from the rest ("other"   *)
(* includes null), since expected_exit_code has a default.                 *)
(***************************************************************************)
JNone     == [k |-> "none",  s |-> <<>>]
JOther    == [k |-> "other", s |-> <<>>]
JStr(s)   == [k |-> "str",   s |-> s]

IAbsent   == [k |-> "absent", n |-> 0]
IOther    == [k |-> "other",  n |-> 0]
JInt(n)   == [k |-> "int",    n |-> n]

LNone     == [k |-> "none",  items |-> <<>>]
LOther    == [k |-> "other", items |-> <<>>]
JList(xs) == [k |-> "list",  items |-> xs]

Returned(parsed) == [ok |-> TRUE,  err |-> "",  parsed |-> parsed]
Raised(err)      == [ok |-> FALSE, err |-> err, parsed |-> <<>>]

DEMO_SMOKE_SCHEMA_VERSION == 1
SURFACE_MANIFEST_SCHEMA_VERSION == 1


(***************************************************************************)
(* demo_smoke_runner.load_manifest                                         *)
(* A raw manifest is [isObj, schema_version, units]; units is the value of *)
(* the "commands" key (command form) or the "surfaces" key (surface form). *)
(***************************************************************************)
\* mutant: any schema_version is accepted
schema_version_mismatch_Never(v, expected) == FALSE

schema_version_mismatch(v, expected) == ~(v.k = "int" /\ v.n = expected)

str_invalid(x) == x.k # "str" \/ strip(x.s) = <<>>

list_invalid(xs) == xs.k # "list" \/ xs.items = <<>>

expected_exit_code_get(e) == IF e.k = "absent" THEN JInt(0) ELSE e

\* mutant: the sign of expected_exit_code is not checked
expected_exit_code_invalid_NoSign(e) == e.k # "int"

expected_exit_code_invalid(e) == e.k # "int" \/ e.n < 0

contains_invalid(c) == c.k # "none" /\ (c.k # "str" \/ strip(c.s) = <<>>)

\* `x.strip() if x else None`
contains_parsed(c) == IF c.k = "str" /\ c.s # <<>> THEN JStr(strip(c.s)) ELSE JNone

\* first violated check of one commands[index] entry, "" when it has none
command_error(command) ==
    IF ~command.isObj THEN "entry-not-object"
    ELSE IF str_invalid(command.name) THEN "name"
    ELSE IF list_invalid(command.args) THEN "args"
    ELSE IF expected_exit_code_invalid(expected_exit_code_get(command.expected_exit_code))
         THEN "expected_exit_code"
    ELSE IF contains_invalid(command.stdout_contains) THEN "stdout_contains"
    ELSE IF contains_invalid(command.stderr_contains) THEN "stderr_contains"
    ELSE IF \E i \in 1..Len(command.args.items) : str_invalid(command.args.items[i])
         THEN "args-item"
    ELSE ""

SmokeCommand(command) ==
    [name               |-> strip(command.name.s),
     args               |-> [i \in 1..Len(command.args.items) |-> command.args.items[i].s],
     expected_exit_code |-> expected_exit_code_get(command.expected_exit_code).n,
     stdout_contains    |-> contains_parsed(command.stdout_contains),
     stderr_contains    |-> contains_parsed(command.stderr_contains)]

RECURSIVE parse_commands(_, _, _)
parse_commands(commands, index, parsed) ==
    IF index > Len(commands) THEN Returned(parsed)
    ELSE IF command_error(commands[index]) # "" THEN Raised(command_error(commands[index]))
    ELSE parse_commands(commands, index + 1, Append(parsed, SmokeCommand(commands[index])))

load_manifest(raw) ==
    IF ~raw.isObj THEN Raised("not-object")
    ELSE IF schema_version_mismatch(raw.schema_version, DEMO_SMOKE_SCHEMA_VERSION)
         THEN Raised("schema_version")
    ELSE IF list_invalid(raw.units) THEN Raised("commands")
    ELSE parse_commands(raw.units.items, 1, <<>>)

(***************************************************************************)
(* live_run_unified_runner.load_surface_manifest                           *)
(***************************************************************************)
surface_error(entry, seen_ids) ==
    IF ~entry.isObj THEN "entry-not-object"
    ELSE IF str_invalid(entry.id) THEN "id"
    ELSE IF strip(entry.id.s) \in seen_ids THEN "duplicate-id"
    ELSE IF str_invalid(entry.script) THEN "script"
    ELSE IF list_invalid(entry.artifact_roots) THEN "artifact_roots"
    ELSE IF \E i \in 1..Len(entry.artifact_roots.items) :
                str_invalid(entry.artifact_roots.items[i])
         THEN "artifact_roots-item"
    ELSE ""

SurfaceSpec(entry) ==
    [surface_id     |-> strip(entry.id.s),
     script         |-> strip(entry.script.s),
     artifact_roots |-> [i \in 1..Len(entry.artifact_roots.items) |->
                            strip(entry.artifact_roots.items[i].s)]]

RECURSIVE parse_surfaces(_, _, _, _)
parse_surfaces(surfaces, index, parsed, seen_ids) ==
    IF index > Len(surfaces) THEN Returned(parsed)
    ELSE IF surface_error(surfaces[index], seen_ids) # ""
         THEN Raised(surface_error(surfaces[index], seen_ids))
    ELSE parse_surfaces(surfaces, index + 1,
                        Append(parsed, SurfaceSpec(surfaces[index])),
                        seen_ids \cup {strip(surfaces[index].id.s)})

load_surface_manifest(raw) ==
    IF ~raw.isObj THEN Raised("not-object")
    ELSE IF schema_version_mismatch(raw.schema_version, SURFACE_MANIFEST_SCHEMA_VERSION)
         THEN Raised("schema_version")
    ELSE IF list_invalid(raw.units) THEN Raised("surfaces")
    ELSE parse_surfaces(raw.units.items, 1, <<>>, {})

(***************************************************************************)
(* Inputs of the loaders: entries that differ from a valid entry in one    *)
(* field, covering every check of the two loaders.                         *)
(***************************************************************************)
SeqsUpTo(S, n) == UNION {[1..m -> S] : m \in 0..n}

sA == <<"a">>
sB == <<"b">>
sX == <<"x">>

NameChoices ==
    {JNone, JOther, JStr(<<>>), JStr(<<" ">>), JStr(sA), JStr(sB), JStr(<<" ", "a">>)}

ValidList == JList(<<JStr(sX)>>)

ListChoices ==
    {LNone, LOther, JList(<<>>), ValidList, JList(<<JStr(<<>>)>>), JList(<<JOther>>),
     JList(<<JStr(<<"x", " ">>)>>)}

ExitCodeChoices == {IAbsent, IOther, JInt(-1), JInt(0), JInt(7)}

ContainsChoices == {JNone, JOther, JStr(<<>>), JStr(<<" ">>), JStr(<<"o", "k">>)}

CommandEntry(name, args, eec, out, err) ==
    [isObj |-> TRUE, name |-> name, args |-> args, expected_exit_code |-> eec,
     stdout_contains |-> out, stderr_contains |-> err]

CommandEntries ==
    {[CommandEntry(JNone, LNone, IAbsent, JNone, JNone) EXCEPT !.isObj = FALSE]}
    \cup {CommandEntry(n, ValidList, IAbsent, JNone, JNone) : n \in NameChoices}
    \cup {CommandEntry(JStr(sA), a, IAbsent, JNone, JNone) : a \in ListChoices}
    \cup {CommandEntry(JStr(sA), ValidList, e, JNone, JNone) : e \in ExitCodeChoices}
    \cup {CommandEntry(JStr(sA), ValidList, IAbsent, c, JNone) : c \in ContainsChoices}
    \cup {CommandEntry(JStr(sB), ValidList, JInt(7), JNone, c) : c \in ContainsChoices}

SurfaceEntry(id, script, roots) ==
    [isObj |-> TRUE, id |-> id, script |-> script, artifact_roots |-> roots]

SurfaceEntries ==
    {[SurfaceEntry(JNone, JNone, LNone) EXCEPT !.isObj = FALSE]}
    \cup {SurfaceEntry(n, JStr(sX), ValidList) : n \in NameChoices}
    \cup {SurfaceEntry(JStr(sA), n, ValidList) : n \in NameChoices}
    \cup {SurfaceEntry(JStr(sB), JStr(sX), a) : a \in ListChoices}

RawManifest(isObj, version, list) ==
    [isObj |-> isObj, schema_version |-> version, units |-> list]

RawManifests(entries, n) ==
    {RawManifest(TRUE, JInt(1), JList(xs)) : xs \in SeqsUpTo(entries, n)}
    \cup {RawManifest(FALSE, IAbsent, LNone)}
    \cup {RawManifest(TRUE, v, JList(xs)) :
            v \in {IAbsent, IOther, JInt(0), JInt(2)}, xs \in SeqsUpTo(entries, 1)}
    \cup {RawManifest(TRUE, JInt(1), l) : l \in {LNone, LOther}}

(***************************************************************************)
(* SpecLoad: one call of a loader on one decoded document.                 *)
(***************************************************************************)
RetryIdle ==
    /\ rtArgs = <<>> /\ rtPc = "idle" /\ rtOutcomes = <<>> /\ rtReport = <<>>
    /\ rtEmitted = <<>> /\ rtExit = -1

PoolIdle ==
    /\ plArgs = <<>> /\ plPc = "idle" /\ plModules = <<>> /\ plQueue = <<>>
    /\ plRunning = {} /\ plRuns = <<>> /\ plResults = <<>> /\ plReported = <<>>
    /\ plExit = -1

MatrixIdle ==
    /\ mxArgs = <<>> /\ mxPc = "idle" /\ mxPlan = <<>> /\ mxFiles = <<>>
    /\ mxStdout = <<>> /\ mxExit = -1

CopyIdle == cpRoots = <<>> /\ cpSources = <<>> /\ cpPc = "idle" /\ cpOut = <<>>

RunIdle ==
    /\ runner = "idle" /\ cli = <<>> /\ manifest = <<>> /\ pc = "idle"
    /\ units = <<>> /\ idx = 0 /\ child = "none" /\ results = <<>>
    /\ started = <<>> /\ fs = <<>> /\ report = <<>> /\ exitCode = -1

InitLoad ==
    /\ \/ ldForm = "command" /\ ldRaw \in RawManifests(CommandEntries, MaxEntries)
       \/ ldForm = "surface" /\ ldRaw \in RawManifests(SurfaceEntries, MaxEntries)
    /\ ldPc = "ready"
    /\ ldOut = <<>>
    /\ RunIdle /\ RetryIdle /\ PoolIdle /\ MatrixIdle /\ CopyIdle

\* the caller's view of `commands = load_manifest(path)`: a list, or an exception
Call(result) ==
    /\ ldPc' = IF result.ok THEN "returned" ELSE "raised"
    /\ ldOut' = result.parsed
    /\ UNCHANGED <<ldForm, ldRaw, runVars, rtVars, plVars, mxVars, cpVars>>

LoadManifest ==
    /\ ldForm = "command" /\ ldPc = "ready"
    /\ Call(load_manifest(ldRaw))

LoadSurfaceManifest ==
    /\ ldForm = "surface" /\ ldPc = "ready"
    /\ Call(load_surface_manifest(ldRaw))

NextLoad == LoadManifest \/ LoadSurfaceManifest

SpecLoad == InitLoad /\ [][NextLoad]_vars

(***************************************************************************)
(* One orchestrator invocation (Spec).                                     *)
(*                                                                         *)
(* pc is the position of main(): "start" before argument parsing, "build"  *)
(* while `cargo build` runs, "loop" at the top of the for loop with idx    *)
(* the unit about to be handled, "wait" while blocked in subprocess.run on *)
(* the unit's process.  Every other value of pc is terminal and names how  *)
(* main() ended; exitCode is then the exit status of the process.          *)
(***************************************************************************)
EXIT_USAGE == 2           \* argparse's parser.error / all.sh usage error
EXIT_UNCAUGHT == 1        \* interpreter exit status of an uncaught exception
TIMEOUT_EXIT_CODE == 124  \* exit status of a demo wrapper stopped on timeout

OnDisk(dir, base, n) == [dir |-> dir, base |-> base, n |-> n]
Leftover == OnDisk(<<>>, "leftover", 0)      \* a file of an earlier invocation

NoDir    == [exists |-> FALSE, files |-> {}]
InitialFs == {NoDir, [exists |-> TRUE, files |-> {Leftover}]}

NoReport ==
    [written |-> FALSE, kind |-> "none", status |-> "", total |-> 0, passed |-> 0,
     failed |-> 0, names |-> <<>>, failed_names |-> <<>>]

RunLetters == <<"a", "b", "c", "d">>
RunNames == {<<RunLetters[i]>> : i \in 1..MaxUnits}

\* surface ids: the run names, and "a/", an id that is not "a"
RunSurfaceIds == RunNames \cup {<<"a", "/">>}

RunSurfaceEntries == {SurfaceEntry(JStr(n), JStr(sX), ValidList) : n \in RunSurfaceIds}

RunCommandEntries ==
    {CommandEntry(JStr(n), ValidList, IAbsent, JNone, JNone) : n \in RunNames}
    \cup {CommandEntry(JStr(sA), ValidList, JInt(7), JStr(<<"o", "k">>),
                        JStr(<<"o", "k">>))}

\* manifests handed to a run: every list of run entries (the empty list and
\* lists with a repeated name included), a wrong schema_version, a non-object
RunManifests(entries) ==
    {RawManifest(TRUE, JInt(1), JList(xs)) : xs \in SeqsUpTo(entries, MaxUnits)}
    \cup {RawManifest(TRUE, JInt(2), JList(xs)) : xs \in SeqsUpTo(entries, 1)}
    \cup {RawManifest(FALSE, IAbsent, LNone)}

Cli(usage_error, keep_going, list, timeout_given, timeout_seconds, only_given, only, skip_build) ==
    [usage_error |-> usage_error, keep_going |-> keep_going, list |-> list,
     timeout_given |-> timeout_given, timeout_seconds |-> timeout_seconds,
     only_given |-> only_given, only |-> only, skip_build |-> skip_build]

LoadIdle == ldForm = "idle" /\ ldRaw = <<>> /\ ldPc = "idle" /\ ldOut = <<>>

\* sum(1 for result in results if <passed>)
RECURSIVE count_passed(_)
count_passed(rs) ==
    IF rs = <<>> THEN 0
    ELSE (IF Head(rs).status = "passed" THEN 1 ELSE 0) + count_passed(Tail(rs))

RECURSIVE failed_ids(_)
failed_ids(rs) ==
    IF rs = <<>> THEN <<>>
    ELSE (IF Head(rs).status = "failed" THEN <<Head(rs).name>> ELSE <<>>)
         \o failed_ids(Tail(rs))

\* one transition of main(); the command line and the manifest never change
Step(pc2, exit2, units2, idx2, child2, results2, started2, fs2, report2) ==
    /\ pc' = pc2 /\ exitCode' = exit2 /\ units' = units2 /\ idx' = idx2
    /\ child' = child2 /\ results' = results2 /\ started' = started2
    /\ fs' = fs2 /\ report' = report2
    /\ UNCHANGED <<ldVars, runner, cli, manifest, rtVars, plVars, mxVars, cpVars>>

\* main() returns or raises: the process ends with this exit status
Halt(how, code) == Step(how, code, units, idx, "none", results, started, fs, report)

(***************************************************************************)
(* The unit's process, as main() sees it through subprocess.run.           *)
(***************************************************************************)
ChildExitCodes == {0, 7}

Completed(rc) == [rc |-> rc, stderr |-> <<>>, timed_out |-> FALSE]

\* A demo wrapper that was handed --timeout-seconds stops its step when the
\* budget runs out, prints "TIMEOUT <step> after <n>s" on stderr and exits 124.
wrapper_timeout(budget) ==
    [rc |-> TIMEOUT_EXIT_CODE,
     stderr |-> <<[kind |-> "TIMEOUT", budget |-> budget]>>,
     timed_out |-> TRUE]

\* the process turns out never to exit on its own
child_hangs ==
    /\ pc = "wait" /\ child = "running"
    /\ Step(pc, exitCode, units, idx, "hung", results, started, fs, report)

(***************************************************************************)
(* live_run_unified_runner.py                                              *)
(***************************************************************************)
RootStates == {"file", "emptydir", "absent"}

\* timeout_seconds of main(): 0 stands for None (nothing is forwarded)
live_timeout_seconds(args) ==
    IF args.timeout_seconds > 0 THEN args.timeout_seconds ELSE 0

\* what copy_surface_artifacts returns: the number of files found under the
\* artifacts directory and the declared roots that do not exist, in order
RECURSIVE copy_surface_artifacts(_, _, _)
copy_surface_artifacts(artifact_roots, rootState, k) ==
    IF k > Len(artifact_roots) THEN [artifacts |-> 0, missing |-> <<>>]
    ELSE LET rest == copy_surface_artifacts(artifact_roots, rootState, k + 1) IN
         [artifacts |-> rest.artifacts + (IF rootState[k] = "file" THEN 1 ELSE 0),
          missing   |-> (IF rootState[k] = "absent" THEN <<artifact_roots[k]>> ELSE <<>>)
                        \o rest.missing]

\* mutant: only exit status 1 counts as a failure
surface_status_OnlyOne(returncode) == IF returncode = 1 THEN "failed" ELSE "passed"

surface_status(returncode) == IF returncode = 0 THEN "passed" ELSE "failed"

surface_diagnostics(returncode, copied) ==
    (IF returncode # 0 THEN <<"surface script exited with code">> ELSE <<>>)
    \o (IF copied.missing # <<>> THEN <<"missing expected artifact roots">> ELSE <<>>)
    \o (IF returncode = 0 /\ copied.artifacts = 0
        THEN <<"surface run produced no copied artifacts">> ELSE <<>>)

\* mutant: a missing artifact root fails the surface
SurfaceRunResult_RootsRequired(spec, completed, copied) ==
    [name                   |-> spec.surface_id,
     status                 |-> IF copied.missing # <<>> THEN "failed"
                                ELSE surface_status(completed.rc),
     exit_code              |-> completed.rc,
     artifacts              |-> copied.artifacts,
     missing_artifact_roots |-> copied.missing,
     diagnostics            |-> surface_diagnostics(completed.rc, copied),
     stderr                 |-> completed.stderr,
     timed_out              |-> completed.timed_out]

SurfaceRunResult(spec, completed, copied) ==
    [name                   |-> spec.surface_id,
     status                 |-> surface_status(completed.rc),
     exit_code              |-> completed.rc,
     artifacts              |-> copied.artifacts,
     missing_artifact_roots |-> copied.missing,
     diagnostics            |-> surface_diagnostics(completed.rc, copied),
     stderr                 |-> completed.stderr,      \* content of stderr_log
     timed_out              |-> completed.timed_out]   \* not a field of the code

\* mutant: the loop never stops early
live_stop_after_Never(result, keep_going) == FALSE

\* `if result.status == "failed" and not args.keep_going: break`
live_stop_after(result, keep_going) == result.status = "failed" /\ ~keep_going

\* mutant: the newest result is put first
live_append_First(rs, result) == <<result>> \o rs

\* results.append(result)
live_append(rs, result) == Append(rs, result)

\* report.json "surface_status": a dict keyed by surface_id, a later result
\* with the same key replacing an earlier one
report_surface_status(rs) ==
    [id \in {rs[i].name : i \in 1..Len(rs)} |->
       LET last == CHOOSE i \in 1..Len(rs) :
                     rs[i].name = id /\ \A j \in 1..Len(rs) : rs[j].name = id => j <= i
       IN  [status |-> rs[last].status, exit_code |-> rs[last].exit_code]]

\* mutant: the failed figure only says whether anything failed
live_report_FailedFlag(rs) ==
    LET passed == count_passed(rs)
        failed == IF passed = Len(rs) THEN 0 ELSE 1
    IN [written |-> TRUE, kind |-> "run",
        status |-> IF failed = 0 THEN "passed" ELSE "failed",
        total |-> Len(rs), passed |-> passed, failed |-> failed,
        names |-> [i \in 1..Len(rs) |-> rs[i].name],
        failed_names |-> failed_ids(rs),
        surfaces |-> [i \in 1..Len(rs) |->
                        [surface_id |-> rs[i].name, status |-> rs[i].status]],
        surface_status |-> report_surface_status(rs)]

\* the "overall" block (one object, written to both files), the "surfaces"
\* list of manifest.json, and "surface_status" and "failed_surfaces" of
\* report.json
live_report(rs) ==
    LET passed == count_passed(rs)
        failed == Len(rs) - passed
    IN [written |-> TRUE, kind |-> "run",
        status |-> IF failed = 0 THEN "passed" ELSE "failed",
        total |-> Len(rs), passed |-> passed, failed |-> failed,
        names |-> [i \in 1..Len(rs) |-> rs[i].name],
        failed_names |-> failed_ids(rs),
        surfaces |-> [i \in 1..Len(rs) |->
                        [surface_id |-> rs[i].name, status |-> rs[i].status]],
        surface_status |-> report_surface_status(rs)]

live_exit_code(rep) == IF rep.failed = 0 THEN 0 ELSE 1

\* the components pathlib keeps of a relative path: "/" separates, empty and
\* "." components are dropped
RECURSIVE path_parts(_)
path_parts(s) ==
    IF s = <<>> THEN <<>>
    ELSE LET seps == {i \in 1..Len(s) : s[i] = "/"}
             cut  == IF seps = {} THEN Len(s) + 1
                     ELSE CHOOSE i \in seps : \A j \in seps : i <= j
             part == SubSeq(s, 1, cut - 1)
         IN (IF part \in {<<>>, <<".">>} THEN <<>> ELSE <<part>>)
              \o path_parts(SubSeq(s, cut + 1, Len(s)))

\* surface_dir = output_dir / "surfaces" / spec.surface_id, below surfaces/
surface_dir(spec) == path_parts(spec.surface_id)

\* files run_surface leaves under <output_dir>/surfaces/<id>/
surface_files(spec, copied) ==
    {OnDisk(surface_dir(spec), "stdout.log", 0), OnDisk(surface_dir(spec), "stderr.log", 0)}
    \cup {OnDisk(surface_dir(spec), "artifacts", k) : k \in 1..copied.artifacts}

\* mutant: the inventory is printed last entry first
print_surface_list_Reversed(specs) ==
    [i \in 1..Len(specs) |-> specs[Len(specs) + 1 - i].surface_id]

\* the ids print_surface_list prints, one per entry of specs
print_surface_list(specs) == [i \in 1..Len(specs) |-> specs[i].surface_id]

\* main() up to its first subprocess: parse_args, load_surface_manifest,
\* --list, the --timeout-seconds check, clearing the output directory and the
\* --skip-build binary check
live_preflight ==
    /\ runner = "live" /\ pc = "start"
    /\ IF cli.usage_error THEN Halt("usage_error", EXIT_USAGE)
       ELSE LET loaded == load_surface_manifest(manifest) IN
       IF ~loaded.ok THEN Halt("manifest_error", EXIT_UNCAUGHT)
       ELSE IF cli.list
            THEN Step("listed", 0, loaded.parsed, idx, child, results, started, fs,
                      [NoReport EXCEPT !.kind = "list",
                                       !.names = print_surface_list(loaded.parsed)])
       ELSE IF cli.timeout_seconds < 0 THEN Halt("timeout_error", EXIT_UNCAUGHT)
       ELSE LET cleared == [exists |-> TRUE, files |-> {}] IN
            IF ~cli.skip_build
            THEN Step("build", -1, loaded.parsed, 1, "build", results, started,
                      cleared, report)
            ELSE \E binary_exists \in BOOLEAN :
                   IF binary_exists
                   THEN Step("loop", -1, loaded.parsed, 1, child, results, started,
                             cleared, report)
                   ELSE Step("binary_missing", EXIT_UNCAUGHT, loaded.parsed, idx, child,
                             results, started, cleared, report)

\* build_binaries returns, or raises CalledProcessError (check=True)
live_build_done ==
    /\ runner = "live" /\ pc = "build"
    /\ \E built \in BOOLEAN :
         IF built
         THEN Step("loop", -1, units, idx, "none", results, started, fs, report)
         ELSE Halt("build_failed", EXIT_UNCAUGHT)

\* run_surface up to subprocess.run: the script must exist, then it is spawned
live_start_surface ==
    /\ runner = "live" /\ pc = "loop"
    /\ \E script_exists \in BOOLEAN :
         IF script_exists
         THEN Step("wait", -1, units, idx, "running", results,
                   Append(started, units[idx].surface_id), fs, report)
         ELSE Halt("script_missing", EXIT_UNCAUGHT)

\* run_surface after subprocess.run, results.append, the break, and, when the
\* loop is over, manifest.json, report.json and the return value of main()
live_record(completed, rootState) ==
    LET spec    == units[idx]
        copied  == copy_surface_artifacts(spec.artifact_roots, rootState, 1)
        result  == SurfaceRunResult(spec, completed, copied)
        rs      == live_append(results, result)
        written == [fs EXCEPT !.files = @ \cup surface_files(spec, copied)]
        rep     == live_report(rs)
    IN IF live_stop_after(result, cli.keep_going) \/ idx = Len(units)
       THEN Step("done", live_exit_code(rep), units, idx, "none", rs, started,
                 [written EXCEPT !.files = @ \cup {OnDisk(<<>>, "manifest.json", 0),
                                                    OnDisk(<<>>, "report.json", 0)}],
                 rep)
       ELSE Step("loop", -1, units, idx + 1, "none", rs, started, written, report)

\* the surface script exits on its own
live_surface_exit ==
    /\ runner = "live" /\ pc = "wait" /\ child = "running"
    /\ \E rc \in ChildExitCodes :
       \E rootState \in [1..Len(units[idx].artifact_roots) -> RootStates] :
         live_record(Completed(rc), rootState)

\* the surface script was handed --timeout-seconds and its budget runs out
live_surface_timeout ==
    /\ runner = "live" /\ pc = "wait"
    /\ live_timeout_seconds(cli) > 0
    /\ \E rootState \in [1..Len(units[idx].artifact_roots) -> RootStates] :
         live_record(wrapper_timeout(live_timeout_seconds(cli)), rootState)

(***************************************************************************)
(* demo_smoke_runner.py                                                    *)
(***************************************************************************)
Alnum == {"a", "b", "c", "d", "x", "o", "k"}

\* "".join(ch if ch.isalnum() or ch in {"-", "_"} else "-" for ch in raw)
\* .strip("-") or "command"
RECURSIVE lstrip_dash(_)
lstrip_dash(s) == IF s # <<>> /\ Head(s) = "-" THEN lstrip_dash(Tail(s)) ELSE s

RECURSIVE rstrip_dash(_)
rstrip_dash(s) ==
    IF s # <<>> /\ s[Len(s)] = "-" THEN rstrip_dash(SubSeq(s, 1, Len(s) - 1)) ELSE s

sanitize_name(raw) ==
    LET replaced == [i \in 1..Len(raw) |->
                        IF raw[i] \in Alnum \cup {"-", "_"} THEN raw[i] ELSE "-"]
        stripped == rstrip_dash(lstrip_dash(replaced))
    IN IF stripped = <<>> THEN <<"c", "o", "m", "m", "a", "n", "d">> ELSE stripped

\* `sub in text`
IsSubstring(sub, text) ==
    \E i \in 0..(Len(text) - Len(sub)) : SubSeq(text, i + 1, i + Len(sub)) = sub

ChildTexts == {<<>>, <<"o", "k">>}

CompletedText(rc, out, err) ==
    [rc |-> rc, stdout |-> out, stderr |-> err, timed_out |-> FALSE]

\* mutant: only the exit status is compared
expectation_failures_ExitOnly(command, completed) ==
    IF completed.rc # command.expected_exit_code THEN <<"exit-code-mismatch">> ELSE <<>>

expectation_failures(command, completed) ==
    (IF completed.rc # command.expected_exit_code
     THEN <<"exit-code-mismatch">> ELSE <<>>)
    \o (IF command.stdout_contains.k = "str"
           /\ ~IsSubstring(command.stdout_contains.s, completed.stdout)
        THEN <<"stdout-missing-substring">> ELSE <<>>)
    \o (IF command.stderr_contains.k = "str"
           /\ ~IsSubstring(command.stderr_contains.s, completed.stderr)
        THEN <<"stderr-missing-substring">> ELSE <<>>)

\* mutant: succeeded looks at the exit status alone
SmokeCommandResult_ByExitCode(command, completed) ==
    [name                   |-> command.name,
     status                 |-> IF completed.rc = 0 THEN "passed" ELSE "failed",
     exit_code              |-> completed.rc,
     artifacts              |-> 0,
     missing_artifact_roots |-> <<>>,
     diagnostics            |-> expectation_failures(command, completed),
     stdout                 |-> completed.stdout,
     stderr                 |-> completed.stderr,
     timed_out              |-> completed.timed_out]

\* SmokeCommandResult; status spells out the `succeeded` property
SmokeCommandResult(command, completed) ==
    LET failures == expectation_failures(command, completed) IN
    [name                   |-> command.name,
     status                 |-> IF failures = <<>> THEN "passed" ELSE "failed",
     exit_code              |-> completed.rc,
     artifacts              |-> 0,
     missing_artifact_roots |-> <<>>,
     diagnostics            |-> failures,
     stdout                 |-> completed.stdout,      \* content of stdout_path
     stderr                 |-> completed.stderr,      \* content of stderr_path
     timed_out              |-> completed.timed_out]

\* mutant: the loop never stops early
smoke_stop_after_Never(result, keep_going) == FALSE

\* `if not result.succeeded: ... if not keep_going: break`
smoke_stop_after(result, keep_going) == result.status = "failed" /\ ~keep_going

NoSummary == [written |-> FALSE]

\* SmokeRunReport(total=len(results), passed=..., failed=..., results=results)
SmokeRunReport(rs) ==
    LET passed == count_passed(rs) IN
    [written |-> TRUE, kind |-> "run",
     status |-> IF Len(rs) - passed = 0 THEN "passed" ELSE "failed",
     total |-> Len(rs), passed |-> passed, failed |-> Len(rs) - passed,
     names |-> [i \in 1..Len(rs) |-> rs[i].name],
     failed_names |-> failed_ids(rs),
     results |-> rs,
     summary |-> NoSummary]

\* SmokeRunReport.failed_result: the first result that did not succeed, or None
failed_result(rep) ==
    LET bad == {i \in 1..Len(rep.results) : rep.results[i].status # "passed"}
    IN  IF bad = {} THEN <<>>
        ELSE <<rep.results[CHOOSE i \in bad : \A j \in bad : i <= j]>>

\* the lines append_summary adds to the summary file; nothing without a path
append_summary(given, rep) ==
    IF ~given THEN NoSummary
    ELSE LET failed == failed_result(rep) IN
         [written  |-> TRUE,
          status   |-> IF failed = <<>> THEN "pass" ELSE "fail",
          commands |-> rep.total, passed |-> rep.passed, failed |-> rep.failed,
          failed_command |-> IF failed = <<>> THEN <<>> ELSE <<failed[1].name>>]

smoke_exit_code(rep) == IF rep.failed = 0 THEN 0 ELSE 1

\* main() after the optional build: the binary must be a file, then
\* run_commands creates log_dir (it is not emptied) and enters its loop
smoke_enter_run(parsed) ==
    \E binary_is_file \in BOOLEAN :
      IF binary_is_file
      THEN Step("loop", -1, parsed, 1, "none", results, started,
                [fs EXCEPT !.exists = TRUE], report)
      ELSE Step("binary_missing", EXIT_UNCAUGHT, parsed, idx, "none", results,
                started, fs, report)

\* main() up to its first subprocess: parse_args, load_manifest, --build
smoke_preflight ==
    /\ runner = "smoke" /\ pc = "start"
    /\ IF cli.usage_error THEN Halt("usage_error", EXIT_USAGE)
       ELSE LET loaded == load_manifest(manifest) IN
       IF ~loaded.ok THEN Halt("manifest_error", EXIT_UNCAUGHT)
       ELSE IF ~cli.skip_build
            THEN Step("build", -1, loaded.parsed, 1, "build", results, started, fs,
                      report)
            ELSE smoke_enter_run(loaded.parsed)

\* build_binary returns, or raises CalledProcessError (check=True)
smoke_build_done ==
    /\ runner = "smoke" /\ pc = "build"
    /\ \E built \in BOOLEAN :
         IF built THEN smoke_enter_run(units) ELSE Halt("build_failed", EXIT_UNCAUGHT)

\* run_commands: top of the loop up to subprocess.run
\* log_dir / f"{index:02d}-{safe_name}.<stream>"
smoke_log(index, command, stream) == OnDisk(sanitize_name(command.name), stream, index)

smoke_append_Overwrite(rs, result) ==
    IF rs = <<>> THEN <<result>> ELSE [rs EXCEPT ![Len(rs)] = result]

\* results.append(result)
smoke_append(rs, result) == Append(rs, result)

smoke_start_command ==
    /\ runner = "smoke" /\ pc = "loop"
    /\ Step("wait", -1, units, idx, "running", results,
            Append(started, units[idx].name), fs, report)

\* run_commands after subprocess.run: the two logs, the expectations,
\* results.append, the break, and, when the loop is over, the report and the
\* return value of main()
smoke_command_exit ==
    /\ runner = "smoke" /\ pc = "wait" /\ child = "running"
    /\ \E rc \in ChildExitCodes : \E out, err \in ChildTexts :
       \E summary_given \in BOOLEAN :
         LET command == units[idx]
             result  == SmokeCommandResult(command, CompletedText(rc, out, err))
             rs      == smoke_append(results, result)
             logs    == {smoke_log(idx, command, "stdout.log"),
                         smoke_log(idx, command, "stderr.log")}
             written == [fs EXCEPT !.files = @ \cup logs]
             rep     == SmokeRunReport(rs)
         IN IF smoke_stop_after(result, cli.keep_going) \/ idx = Len(units)
            THEN Step("done", smoke_exit_code(rep), units, idx, "none", rs, started,
                      written,
                      [rep EXCEPT !.summary = append_summary(summary_given, rep)])
            ELSE Step("loop", -1, units, idx + 1, "none", rs, started, written, report)

(***************************************************************************)
(* scripts/demo/all.sh: the demo wrapper runner.  Modelled from the        *)
(* specification and from test_demo_scripts.py.                            *)
(***************************************************************************)
MaxOnly == 2        \* names given to --only

Unknown == <<"u">>  \* a name that is in no inventory

\* the built-in inventory of demos, in declaration order
all_sh_inventory == [i \in 1..MaxUnits |-> <<RunLetters[i]>>]

RECURSIVE all_sh_select(_, _)
all_sh_select(inventory, only) ==
    IF inventory = <<>> THEN <<>>
    ELSE (IF \E i \in 1..Len(only) : only[i] = Head(inventory)
          THEN <<Head(inventory)>> ELSE <<>>)
         \o all_sh_select(Tail(inventory), only)

\* mutant: no name is ever unknown
all_sh_unknown_only_Never(inventory, only) == FALSE

all_sh_unknown_only(inventory, only) ==
    \E i \in 1..Len(only) : \A j \in 1..Len(inventory) : inventory[j] # only[i]

all_sh_result(name, completed) ==
    [name                   |-> name,
     status                 |-> IF completed.rc = 0 THEN "passed" ELSE "failed",
     exit_code              |-> completed.rc,
     artifacts              |-> 0,
     missing_artifact_roots |-> <<>>,
     diagnostics            |-> <<>>,
     stderr                 |-> completed.stderr,
     timed_out              |-> completed.timed_out]

all_sh_report(rs) ==
    LET passed == count_passed(rs) IN
    [written |-> TRUE, kind |-> "run",
     status |-> IF Len(rs) - passed = 0 THEN "passed" ELSE "failed",
     total |-> Len(rs), passed |-> passed, failed |-> Len(rs) - passed,
     names |-> [i \in 1..Len(rs) |-> rs[i].name],
     failed_names |-> failed_ids(rs)]

\* argument parsing and validation, --list, the binary check
all_sh_preflight ==
    /\ runner = "all" /\ pc = "start"
    /\ IF cli.usage_error THEN Halt("usage_error", EXIT_USAGE)
       ELSE IF cli.timeout_given /\ cli.timeout_seconds <= 0
            THEN Halt("timeout_error", EXIT_USAGE)
       ELSE IF cli.only_given /\ all_sh_unknown_only(manifest, cli.only)
            THEN Halt("selection_error", EXIT_USAGE)
       ELSE LET selected == IF cli.only_given THEN all_sh_select(manifest, cli.only)
                            ELSE manifest
            IN IF cli.list
               THEN Step("listed", 0, selected, idx, child, results, started, fs,
                         [NoReport EXCEPT !.kind = "list", !.names = manifest])
               ELSE \E binary_exists \in BOOLEAN :
                      IF binary_exists
                      THEN Step("loop", -1, selected, 1, child, results, started, fs,
                                report)
                      ELSE Step("binary_missing", 1, selected, idx, child, results,
                                started, fs, report)

all_sh_start_demo ==
    /\ runner = "all" /\ pc = "loop" /\ idx <= Len(units)
    /\ Step("wait", -1, units, idx, "running", results, Append(started, units[idx]),
            fs, report)

\* the summary, the report file and the exit status after the last demo run
all_sh_record(completed) ==
    LET result == all_sh_result(units[idx], completed)
        rs     == Append(results, result)
        rep    == all_sh_report(rs)
    IN IF (result.status = "failed" /\ ~cli.keep_going) \/ idx = Len(units)
       THEN Step("done", IF rep.failed = 0 THEN 0 ELSE 1, units, idx, "none", rs,
                 started,
                 [exists |-> TRUE, files |-> fs.files \cup {OnDisk(<<>>, "report.json", 0)}],
                 rep)
       ELSE Step("loop", -1, units, idx + 1, "none", rs, started, fs, report)

all_sh_demo_exit ==
    /\ runner = "all" /\ pc = "wait" /\ child = "running"
    /\ \E rc \in ChildExitCodes : all_sh_record(Completed(rc))

all_sh_demo_timeout ==
    /\ runner = "all" /\ pc = "wait"
    /\ cli.timeout_given
    /\ all_sh_record(wrapper_timeout(cli.timeout_seconds))

(***************************************************************************)
(* Spec: one invocation of one of the three orchestrators.                 *)
(***************************************************************************)
InitLive ==
    /\ runner = "live"
    /\ manifest \in RunManifests(RunSurfaceEntries)
    /\ \/ cli = Cli(TRUE, FALSE, FALSE, FALSE, 0, FALSE, <<>>, FALSE)
       \/ \E kg, ls, sb \in BOOLEAN : \E t \in {-1, 0, 1} :
            cli = Cli(FALSE, kg, ls, TRUE, t, FALSE, <<>>, sb)

InitSmoke ==
    /\ runner = "smoke"
    /\ manifest \in RunManifests(RunCommandEntries)
    /\ \/ cli = Cli(TRUE, FALSE, FALSE, FALSE, 0, FALSE, <<>>, FALSE)
       \/ \E kg, sb \in BOOLEAN :
            cli = Cli(FALSE, kg, FALSE, FALSE, 0, FALSE, <<>>, sb)

\* --fail-fast is keep_going = FALSE; all.sh keeps going by default
InitAll ==
    /\ runner = "all"
    /\ manifest = all_sh_inventory
    /\ \/ cli = Cli(TRUE, TRUE, FALSE, FALSE, 0, FALSE, <<>>, TRUE)
       \/ \E kg, ls, tg \in BOOLEAN : \E t \in {0, 1} :
            /\ (~tg => t = 0)
            /\ \/ cli = Cli(FALSE, kg, ls, tg, t, FALSE, <<>>, TRUE)
               \/ \E only \in SeqsUpTo(RunNames \cup {Unknown}, MaxOnly) \ {<<>>} :
                    cli = Cli(FALSE, kg, ls, tg, t, TRUE, only, TRUE)

InitRun ==
    /\ LoadIdle /\ RetryIdle /\ PoolIdle /\ MatrixIdle /\ CopyIdle
    /\ pc = "start" /\ units = <<>> /\ idx = 0 /\ child = "none"
    /\ results = <<>> /\ started = <<>> /\ fs \in InitialFs
    /\ report = NoReport /\ exitCode = -1

Init == InitRun /\ (InitLive \/ InitSmoke \/ InitAll)

Next ==
    \/ live_preflight
    \/ live_build_done
    \/ live_start_surface
    \/ live_surface_exit
    \/ live_surface_timeout
    \/ smoke_preflight
    \/ smoke_build_done
    \/ smoke_start_command
    \/ smoke_command_exit
    \/ all_sh_preflight
    \/ all_sh_start_demo
    \/ all_sh_demo_exit
    \/ all_sh_demo_timeout
    \/ child_hangs

Spec == Init /\ [][Next]_vars


(***************************************************************************)
(* ci_checkout_retry.py (SpecRetry): one invocation of the retry helper.   *)
(*                                                                         *)
(* rtPc is the position of main(): "start" after parse_args, "policy"      *)
(* after the argument checks, "outcomes" once `outcomes` is bound,         *)
(* "report" after build_report, "checked" after the budget check; "done"   *)
(* when main() returned and "raised" when it ended in a ValueError.        *)
(***************************************************************************)
MaxAttempts == 3    \* largest --max-attempts (also the longest --outcomes list)
MaxDelay    == 2    \* largest --base-delay-seconds / --cap-delay-seconds

sSuccess   == <<"s", "u", "c", "c", "e", "s", "s">>
sFailure   == <<"f", "a", "i", "l", "u", "r", "e">>
sSkipped   == <<"s", "k", "i", "p", "p", "e", "d">>
sCancelled == <<"c", "a", "n", "c", "e", "l", "l", "e", "d">>
sUnknown   == <<"u", "n", "k", "n", "o", "w", "n">>

ALLOWED_OUTCOMES == {sSuccess, sFailure, sSkipped, sCancelled, sUnknown}

\* str.lower(), on the letters that occur
LowerChar(c) ==
    CASE c = "S" -> "s" [] c = "U" -> "u" [] c = "C" -> "c" [] c = "E" -> "e"
      [] c = "B" -> "b" [] c = "D" -> "d" [] c = "V" -> "v"
      [] OTHER -> c

lower(s) == [i \in 1..Len(s) |-> LowerChar(s[i])]

\* [entry.strip().lower() for entry in raw.split(",") if entry.strip()]
\* raw is given as the list raw.split(",")
RECURSIVE clean_entries(_)
clean_entries(entries) ==
    IF entries = <<>> THEN <<>>
    ELSE (IF strip(Head(entries)) # <<>> THEN <<lower(strip(Head(entries)))>> ELSE <<>>)
         \o clean_entries(Tail(entries))

\* while len(outcomes) < max_attempts: outcomes.append("skipped")
RECURSIVE pad_skipped(_, _)
pad_skipped(outcomes, max_attempts) ==
    IF Len(outcomes) < max_attempts
    THEN pad_skipped(Append(outcomes, sSkipped), max_attempts)
    ELSE outcomes

\* mutant: the list is returned as given, without padding
normalize_outcomes_NoPad(raw, max_attempts) ==
    LET outcomes == clean_entries(raw) IN
    IF Len(outcomes) > max_attempts THEN Raised("length")
    ELSE IF \E i \in 1..Len(outcomes) : outcomes[i] \notin ALLOWED_OUTCOMES
         THEN Raised("unsupported")
    ELSE Returned(outcomes)

normalize_outcomes(raw, max_attempts) ==
    LET outcomes == clean_entries(raw) IN
    IF Len(outcomes) > max_attempts THEN Raised("length")
    ELSE IF \E i \in 1..Len(outcomes) : outcomes[i] \notin ALLOWED_OUTCOMES
         THEN Raised("unsupported")
    ELSE Returned(pad_skipped(outcomes, max_attempts))

CheckoutRetryPolicy(max_attempts, base, cap, max_total) ==
    [max_attempts |-> max_attempts, base_delay_seconds |-> base,
     cap_delay_seconds |-> cap, max_total_delay_seconds |-> max_total]

RECURSIVE Pow2(_)
Pow2(n) == IF n <= 0 THEN 1 ELSE 2 * Pow2(n - 1)

Min(a, b) == IF a < b THEN a ELSE b

RECURSIVE Sum(_)
Sum(xs) == IF xs = <<>> THEN 0 ELSE Head(xs) + Sum(Tail(xs))

\* mutant: the cap is not applied
compute_retry_delays_NoCap(policy) ==
    [retry_index \in 1..(policy.max_attempts - 1) |->
        policy.base_delay_seconds * Pow2(retry_index - 1)]

\* for retry_index in range(1, max_attempts): delays.append(min(delay, cap))
compute_retry_delays(policy) ==
    [retry_index \in 1..(policy.max_attempts - 1) |->
        Min(policy.base_delay_seconds * Pow2(retry_index - 1),
            policy.cap_delay_seconds)]

\* mutant: the last success is taken
first_success_Last(outcomes, index) ==
    IF \E i \in 1..Len(outcomes) : outcomes[i] = sSuccess
    THEN CHOOSE i \in 1..Len(outcomes) :
           /\ outcomes[i] = sSuccess
           /\ \A j \in (i + 1)..Len(outcomes) : outcomes[j] # sSuccess
    ELSE 0

\* next((index + 1 for index, outcome in enumerate(outcomes)
\*       if outcome == "success"), None); 0 stands for None
RECURSIVE first_success(_, _)
first_success(outcomes, index) ==
    IF index > Len(outcomes) THEN 0
    ELSE IF outcomes[index] = sSuccess THEN index
    ELSE first_success(outcomes, index + 1)

\* mutant: the delay after the success attempt is counted too
delays_before_Inclusive(retry_delays, success_attempt) ==
    Sum(SubSeq(retry_delays, 1, Min(success_attempt, Len(retry_delays))))

\* sum(retry_delays[: max(0, success_attempt - 1)])
delays_before(retry_delays, success_attempt) ==
    LET stop == IF success_attempt - 1 < 0 THEN 0 ELSE success_attempt - 1 IN
    Sum(SubSeq(retry_delays, 1, Min(stop, Len(retry_delays))))

NoRetryReport == [made |-> FALSE]

build_report(policy, outcomes) ==
    LET retry_delays        == compute_retry_delays(policy)
        planned_total_delay == Sum(retry_delays)
        success_attempt     == first_success(outcomes, 1)
    IN [made |-> TRUE,
        policy |-> policy,
        outcomes |-> outcomes,
        retry_delays_seconds |-> retry_delays,
        planned_total_delay_seconds |-> planned_total_delay,
        actual_total_delay_seconds |->
            IF success_attempt = 0 THEN planned_total_delay
            ELSE delays_before(retry_delays, success_attempt),
        success_attempt |-> success_attempt,
        status |-> IF success_attempt = 0 THEN "failure" ELSE "success",
        mode |-> IF success_attempt = 0 THEN "checkout_retries_exhausted"
                 ELSE IF success_attempt = 1 THEN "first_attempt_success"
                 ELSE "resolved_after_retry"]

\* mutant: the budget is never exceeded
over_budget_Never(rep, policy) == FALSE

\* report.planned_total_delay_seconds > policy.max_total_delay_seconds
over_budget(rep, policy) ==
    rep.planned_total_delay_seconds > policy.max_total_delay_seconds

\* mutant: the exit status follows the report status alone
retry_exit_code_ByStatus(rep, dry_run) == IF rep.status = "success" THEN 0 ELSE 1

\* if args.dry_run: return 0; return 0 if report.status == "success" else 1
retry_exit_code(rep, dry_run) ==
    IF dry_run THEN 0 ELSE IF rep.status = "success" THEN 0 ELSE 1

RetryArgs(policy, outcomes, dry_run) ==
    [policy |-> policy, outcomes |-> outcomes, dry_run |-> dry_run]

\* the four policy values of the parsed command line
rtPolicy == rtArgs.policy

NoEmission == [stdout |-> NoRetryReport, summary |-> FALSE, output |-> FALSE]

RetryStep(pc2, outcomes2, report2, emitted2, exit2) ==
    /\ rtPc' = pc2 /\ rtOutcomes' = outcomes2 /\ rtReport' = report2
    /\ rtEmitted' = emitted2 /\ rtExit' = exit2
    /\ UNCHANGED <<rtArgs, ldVars, runVars, plVars, mxVars, cpVars>>

\* an uncaught ValueError: the locals are gone, the interpreter exits 1
RetryRaise == RetryStep("raised", <<>>, NoRetryReport, rtEmitted, EXIT_UNCAUGHT)

\* the five argument checks at the head of main()
retry_check_args ==
    /\ rtPc = "start"
    /\ IF \/ rtPolicy.max_attempts < 1
          \/ rtPolicy.base_delay_seconds < 0
          \/ rtPolicy.cap_delay_seconds < 0
          \/ rtPolicy.cap_delay_seconds < rtPolicy.base_delay_seconds
          \/ rtPolicy.max_total_delay_seconds < 0
       THEN RetryRaise
       ELSE RetryStep("policy", rtOutcomes, rtReport, rtEmitted, rtExit)

\* outcomes = ["skipped"] * max_attempts if dry_run else normalize_outcomes(...)
retry_bind_outcomes ==
    /\ rtPc = "policy"
    /\ IF rtArgs.dry_run
       THEN RetryStep("outcomes", [i \in 1..rtPolicy.max_attempts |-> sSkipped],
                      rtReport, rtEmitted, rtExit)
       ELSE LET normalized == normalize_outcomes(rtArgs.outcomes, rtPolicy.max_attempts)
            IN IF normalized.ok
               THEN RetryStep("outcomes", normalized.parsed, rtReport, rtEmitted, rtExit)
               ELSE RetryRaise

\* report = build_report(policy, outcomes)
retry_build_report ==
    /\ rtPc = "outcomes"
    /\ RetryStep("report", rtOutcomes, build_report(rtPolicy, rtOutcomes), rtEmitted,
                 rtExit)

\* the budget check
retry_check_budget ==
    /\ rtPc = "report"
    /\ IF over_budget(rtReport, rtPolicy) THEN RetryRaise
       ELSE RetryStep("checked", rtOutcomes, rtReport, rtEmitted, rtExit)

\* print, write_summary, write_output and the return value of main()
\* (--summary and --output are both given)
retry_emit ==
    /\ rtPc = "checked"
    /\ RetryStep("done", rtOutcomes, rtReport,
                 [stdout |-> rtReport, summary |-> TRUE, output |-> TRUE],
                 retry_exit_code(rtReport, rtArgs.dry_run))

RawOutcomeEntries ==
    {sSuccess, sFailure, <<" ", "S", "U", "C", "C", "E", "S", "S", " ">>, <<" ">>,
     <<"b", "a", "d">>}

ValidPolicies ==
    {CheckoutRetryPolicy(n, base, cap, budget) :
        n \in 1..MaxAttempts, base \in 0..MaxDelay, cap \in 0..MaxDelay,
        budget \in {0, MaxDelay, MaxDelay * MaxAttempts}}
    \ {p \in [max_attempts : 1..MaxAttempts, base_delay_seconds : 0..MaxDelay,
              cap_delay_seconds : 0..MaxDelay,
              max_total_delay_seconds : {0, MaxDelay, MaxDelay * MaxAttempts}] :
          p.cap_delay_seconds < p.base_delay_seconds}

\* one policy for each argument check that can fail
InvalidPolicies ==
    {CheckoutRetryPolicy(0, 1, 1, MaxDelay), CheckoutRetryPolicy(1, -1, 1, MaxDelay),
     CheckoutRetryPolicy(1, 0, -1, MaxDelay), CheckoutRetryPolicy(1, 1, 0, MaxDelay),
     CheckoutRetryPolicy(1, 1, 1, -1)}

InitRetry ==
    /\ \E policy \in ValidPolicies \cup InvalidPolicies :
         \/ rtArgs = RetryArgs(policy, <<>>, TRUE)
         \/ \E raw \in SeqsUpTo(RawOutcomeEntries, MaxAttempts) :
              rtArgs = RetryArgs(policy, raw, FALSE)
    /\ rtPc = "start" /\ rtOutcomes = <<>> /\ rtReport = NoRetryReport
    /\ rtEmitted = NoEmission /\ rtExit = -1
    /\ LoadIdle /\ RunIdle /\ PoolIdle /\ MatrixIdle /\ CopyIdle

NextRetry ==
    \/ retry_check_args
    \/ retry_bind_outcomes
    \/ retry_build_report
    \/ retry_check_budget
    \/ retry_emit

SpecRetry == InitRetry /\ [][NextRetry]_vars


(***************************************************************************)
(* ci_helper_parallel_runner.py (SpecPool): one invocation.                *)
(*                                                                         *)
(* A path is the sequence of its components below --start-dir, each a      *)
(* string; str(path) joins them with "/".  plPc is "start" after           *)
(* parse_args, "running" inside run_modules, and otherwise names how       *)
(* main() returned.  Work items are positions in module_list.              *)
(***************************************************************************)
MaxModules == 3     \* files under --start-dir
MaxWorkers == 2     \* largest --workers

\* code points of the characters that occur in the paths
Ord(c) ==
    CASE c = "." -> 46 [] c = "/" -> 47 [] c = "1" -> 49 [] c = "2" -> 50
      [] c = "t" -> 116 [] c = "x" -> 120 [] c = "y" -> 121

\* str.__lt__
RECURSIVE StrLess(_, _)
StrLess(a, b) ==
    IF a = <<>> THEN b # <<>>
    ELSE IF b = <<>> THEN FALSE
    ELSE IF Head(a) = Head(b) THEN StrLess(Tail(a), Tail(b))
    ELSE Ord(Head(a)) < Ord(Head(b))

\* PurePath.__lt__: the lists of components are compared
RECURSIVE PathLess(_, _)
PathLess(p, q) ==
    IF p = <<>> THEN q # <<>>
    ELSE IF q = <<>> THEN FALSE
    ELSE IF Head(p) = Head(q) THEN PathLess(Tail(p), Tail(q))
    ELSE StrLess(Head(p), Head(q))

\* str(module_path)
RECURSIVE PathStr(_)
PathStr(p) ==
    IF Len(p) <= 1 THEN (IF p = <<>> THEN <<>> ELSE p[1])
    ELSE p[1] \o <<"/">> \o PathStr(Tail(p))

\* sorted(<paths>)
RECURSIVE sorted_paths(_)
sorted_paths(S) ==
    IF S = {} THEN <<>>
    ELSE LET least == CHOOSE x \in S : \A y \in S \ {x} : PathLess(x, y)
         IN <<least>> \o sorted_paths(S \ {least})

\* start_dir.glob(pattern): "flat" is a pattern without a directory part
\* (the default test_*.py), "nested" one that also matches below
\* subdirectories (**/test_*.py)
glob(files, pattern) ==
    IF pattern = "flat" THEN {f \in files : Len(f) = 1} ELSE files

discover_modules(files, pattern) == sorted_paths(glob(files, pattern))

ModuleResult(module_path, return_code) ==
    [path |-> PathStr(module_path), return_code |-> return_code]

\* sorted(results, key=lambda item: item.path)
RECURSIVE sorted_results(_)
sorted_results(rs) ==
    IF rs = <<>> THEN <<>>
    ELSE LET k == CHOOSE i \in 1..Len(rs) :
                    \A j \in 1..Len(rs) : j # i => ~StrLess(rs[j].path, rs[i].path)
                                                    /\ (rs[j].path = rs[i].path => i < j)
         IN <<rs[k]>> \o sorted_results([i \in 1..(Len(rs) - 1) |->
                                           IF i < k THEN rs[i] ELSE rs[i + 1]])

\* what run_modules returns once every module has finished
run_modules_return(rs, workers) == IF workers = 1 THEN rs ELSE sorted_results(rs)

\* mutant: a failure is reported only when every module failed
pool_exit_code_AllFailed(rs) ==
    IF rs # <<>> /\ \A i \in 1..Len(rs) : rs[i].return_code # 0 THEN 1 ELSE 0

\* failures = [r for r in results if r.return_code != 0]; 1 if failures else 0
pool_exit_code(rs) ==
    IF \E i \in 1..Len(rs) : rs[i].return_code # 0 THEN 1 ELSE 0

PoolArgs(workers, dir_exists, files, pattern) ==
    [workers |-> workers, dir_exists |-> dir_exists, files |-> files,
     pattern |-> pattern]

PoolStep(pc2, modules2, queue2, running2, runs2, results2, reported2, exit2) ==
    /\ plPc' = pc2 /\ plModules' = modules2 /\ plQueue' = queue2
    /\ plRunning' = running2 /\ plRuns' = runs2 /\ plResults' = results2
    /\ plReported' = reported2 /\ plExit' = exit2
    /\ UNCHANGED <<plArgs, ldVars, runVars, rtVars, mxVars, cpVars>>

PoolHalt(how, code) ==
    PoolStep(how, plModules, plQueue, plRunning, plRuns, plResults, plReported, code)

\* main() up to run_modules; with workers = 1 the list comprehension, with
\* more workers the executor's queue, holds every module in list order
pool_preflight ==
    /\ plPc = "start"
    /\ IF plArgs.workers <= 0 THEN PoolHalt("workers_error", EXIT_USAGE)
       ELSE IF ~plArgs.dir_exists THEN PoolHalt("start_dir_error", EXIT_USAGE)
       ELSE LET modules == discover_modules(plArgs.files, plArgs.pattern) IN
            IF modules = <<>> THEN PoolHalt("no_modules", EXIT_USAGE)
            ELSE PoolStep("running", modules, [i \in 1..Len(modules) |-> i], {},
                          [i \in 1..Len(modules) |-> 0], <<>>, <<>>, -1)

\* an idle worker thread takes the oldest work item and spawns its process
pool_worker_start ==
    /\ plPc = "running" /\ plQueue # <<>>
    /\ Cardinality(plRunning) < plArgs.workers
    /\ LET i == Head(plQueue) IN
       PoolStep(plPc, plModules, Tail(plQueue), plRunning \cup {i},
                [plRuns EXCEPT ![i] = @ + 1], plResults, plReported, plExit)

\* a module's process exits; its result is collected (as_completed)
pool_module_exit ==
    /\ plPc = "running"
    /\ \E i \in plRunning : \E rc \in ChildExitCodes :
         PoolStep(plPc, plModules, plQueue, plRunning \ {i}, plRuns,
                  Append(plResults, ModuleResult(plModules[i], rc)), plReported,
                  plExit)

\* run_modules returns; main() prints the results and returns
pool_report ==
    /\ plPc = "running" /\ plQueue = <<>> /\ plRunning = {}
    /\ LET rs == run_modules_return(plResults, plArgs.workers) IN
       PoolStep("done", plModules, plQueue, plRunning, plRuns, plResults, rs,
                pool_exit_code(rs))

PoolFiles ==
    {<<<<"t", "1">>>>, <<<<"t", "2">>>>, <<<<"x">>, <<"t", "1">>>>,
     <<<<"x", ".", "y">>, <<"t", "1">>>>}

InitPool ==
    /\ \E workers \in 0..MaxWorkers : \E dir_exists \in BOOLEAN :
       \E files \in {S \in SUBSET PoolFiles : Cardinality(S) <= MaxModules} :
       \E pattern \in {"flat", "nested"} :
         /\ (~dir_exists => files = {})
         /\ plArgs = PoolArgs(workers, dir_exists, files, pattern)
    /\ plPc = "start" /\ plModules = <<>> /\ plQueue = <<>> /\ plRunning = {}
    /\ plRuns = <<>> /\ plResults = <<>> /\ plReported = <<>> /\ plExit = -1
    /\ LoadIdle /\ RunIdle /\ RetryIdle /\ MatrixIdle /\ CopyIdle

NextPool ==
    \/ pool_preflight
    \/ pool_worker_start
    \/ pool_module_exit
    \/ pool_report

SpecPool == InitPool /\ [][NextPool]_vars

(***************************************************************************)
(* SpecMatrix: one invocation of live_smoke_matrix.py.                     *)
(***************************************************************************)
kVoice         == <<"v", "o", "i", "c", "e">>
kBrowser       == <<"b", "r", "o", "w", "s", "e", "r">>
kDashboard     == <<"d", "a", "s", "h", "b", "o", "a", "r", "d">>
kCustomCommand == <<"c", "u", "s", "t", "o", "m", "-", "c", "o", "m", "m", "a", "n", "d">>
kMemory        == <<"m", "e", "m", "o", "r", "y">>

SurfacePlan(surface, primary_wrapper, fallback_wrapper, artifact_dirs, timeout_seconds) ==
    [surface |-> surface, primary_wrapper |-> primary_wrapper,
     fallback_wrapper |-> fallback_wrapper, artifact_dirs |-> artifact_dirs,
     timeout_seconds |-> timeout_seconds]

SurfaceKeys == {kVoice, kBrowser, kDashboard, kCustomCommand, kMemory}

SURFACE_PLANS ==
    [key \in SurfaceKeys |->
       CASE key = kVoice ->
              SurfacePlan(kVoice, "scripts/demo/voice.sh", "",
                          <<".tau/demo-voice">>, 180)
         [] key = kBrowser ->
              SurfacePlan(kBrowser, "scripts/demo/browser-automation-live.sh",
                          "scripts/demo/browser-automation.sh",
                          <<".tau/demo-browser-automation-live",
                            ".tau/demo-browser-automation">>, 180)
         [] key = kDashboard ->
              SurfacePlan(kDashboard, "scripts/demo/dashboard.sh", "",
                          <<".tau/demo-dashboard">>, 180)
         [] key = kCustomCommand ->
              SurfacePlan(kCustomCommand, "scripts/demo/custom-command.sh", "",
                          <<".tau/demo-custom-command">>, 180)
         [] key = kMemory ->
              SurfacePlan(kMemory, "scripts/demo/memory.sh", "",
                          <<".tau/demo-memory">>, 180)]

\* key = surface.strip().lower(); an unknown key raises ValueError
resolve_surface_plan(surface) ==
    LET key == lower(strip(surface))
    IN  IF key \notin DOMAIN SURFACE_PLANS
        THEN Raised("unsupported live-smoke surface")
        ELSE Returned(SURFACE_PLANS[key])

MatrixArgs(surface, output, summary, json) ==
    [surface |-> surface, output |-> output, summary |-> summary, json |-> json]

MatrixStep(pc2, plan2, files2, stdout2, exit2) ==
    /\ mxPc' = pc2 /\ mxPlan' = plan2 /\ mxFiles' = files2
    /\ mxStdout' = stdout2 /\ mxExit' = exit2
    /\ UNCHANGED <<mxArgs, ldVars, runVars, rtVars, plVars, cpVars>>

\* main(): plan = resolve_surface_plan(args.surface); the ValueError is not caught
matrix_resolve ==
    /\ mxPc = "start"
    /\ LET r == resolve_surface_plan(mxArgs.surface)
       IN  IF r.ok
           THEN MatrixStep("resolved", r.parsed, mxFiles, mxStdout, mxExit)
           ELSE MatrixStep("raised", <<>>, mxFiles, mxStdout, EXIT_UNCAUGHT)

\* main(): emit_outputs, append_summary, print, return 0
matrix_emit ==
    /\ mxPc = "resolved"
    /\ LET to_output  == strip(mxArgs.output) # <<>>
           to_summary == strip(mxArgs.summary) # <<>>
           files == [output  |-> IF to_output THEN <<mxPlan>> ELSE <<>>,
                     summary |-> IF to_summary THEN <<mxPlan>> ELSE <<>>]
           printed == IF mxArgs.json \/ ~to_output THEN <<mxPlan>> ELSE <<>>
       IN  MatrixStep("done", mxPlan, files, printed, 0)

\* --surface values: each key and two unknown words, bare, padded and capitalised
MatrixSurfaces ==
    LET words == SurfaceKeys \cup {<<"d", "a", "s", "h">>, <<>>}
        cap(w) == IF w = <<>> THEN w
                  ELSE <<CASE Head(w) = "v" -> "V" [] Head(w) = "b" -> "B"
                           [] Head(w) = "d" -> "D" [] Head(w) = "c" -> "C"
                           [] OTHER -> Head(w)>> \o Tail(w)
    IN  words \cup {<<" ">> \o w : w \in words} \cup {w \o <<" ">> : w \in words}
          \cup {cap(w) : w \in words}

MatrixPaths == {<<>>, <<" ">>, <<"o">>}

InitMatrix ==
    /\ \E surface \in MatrixSurfaces : \E output \in MatrixPaths :
       \E summary \in MatrixPaths : \E json \in BOOLEAN :
         mxArgs = MatrixArgs(surface, output, summary, json)
    /\ mxPc = "start" /\ mxPlan = <<>>
    /\ mxFiles = [output |-> <<>>, summary |-> <<>>]
    /\ mxStdout = <<>> /\ mxExit = -1
    /\ LoadIdle /\ RunIdle /\ RetryIdle /\ PoolIdle /\ CopyIdle

NextMatrix ==
    \/ matrix_resolve
    \/ matrix_emit

SpecMatrix == InitMatrix /\ [][NextMatrix]_vars

(***************************************************************************)
(* SpecCopy: one call of copy_surface_artifacts on a fresh artifacts       *)
(* directory.                                                              *)
(***************************************************************************)
MaxRoots == 2       \* artifact roots declared by the surface

\* raw.replace("\\", "/")
slashes(s) == [i \in 1..Len(s) |-> IF s[i] = "\\" THEN "/" ELSE s[i]]

RECURSIVE lstrip_slash(_)
lstrip_slash(s) == IF s # <<>> /\ Head(s) = "/" THEN lstrip_slash(Tail(s)) ELSE s

RECURSIVE rstrip_slash(_)
rstrip_slash(s) ==
    IF s # <<>> /\ s[Len(s)] = "/" THEN rstrip_slash(SubSeq(s, 1, Len(s) - 1)) ELSE s

clean_relative_label(raw) ==
    LET label   == slashes(strip(raw))
        undot   == IF Len(label) >= 2 /\ SubSeq(label, 1, 2) = <<".", "/">>
                   THEN SubSeq(label, 3, Len(label)) ELSE label
        cleaned == rstrip_slash(lstrip_slash(undot))
    IN  IF cleaned = <<>> THEN <<"r", "o", "o", "t">> ELSE cleaned

\* the file or directory a root names: absolute as given, else below repo_root
resolve_path(raw) ==
    [absolute |-> raw # <<>> /\ Head(raw) = "/", parts |-> path_parts(raw)]

\* destination = artifacts_dir / clean_relative_label(root), below artifacts_dir
destination(root) == path_parts(clean_relative_label(root))

IsPrefix(p, q) == Len(p) <= Len(q) /\ SubSeq(q, 1, Len(p)) = p

Entry(path, kind, origin) == [path |-> path, kind |-> kind, origin |-> origin]

\* what a source can be; a "tree" is a directory holding the one file f
CopyStates == RootStates \cup {"tree"}

\* shutil.copy2(source, destination): into destination when it is a directory
copy2(tree, source, dest, k) ==
    LET into   == \E e \in tree : e.path = dest /\ e.kind = "dir"
        target == IF into THEN dest \o <<source.parts[Len(source.parts)]>> ELSE dest
    IN  {e \in tree : e.path # target} \cup {Entry(target, "file", k)}

\* if destination.exists(): shutil.rmtree(destination)
rmtree(tree, dest) == {e \in tree : ~IsPrefix(dest, e.path)}

\* shutil.copytree(source, destination)
copytree(tree, state, dest, k) ==
    tree \cup {Entry(dest, "dir", k)}
         \cup (IF state = "tree" THEN {Entry(dest \o <<<<"f">>>>, "file", k)} ELSE {})

\* the loop over artifact_roots, from root k on; rmtree of a file raises
RECURSIVE copy_roots(_, _, _, _)
copy_roots(artifact_roots, sources, k, acc) ==
    IF k > Len(artifact_roots) \/ ~acc.ok THEN acc
    ELSE LET root   == artifact_roots[k]
             source == resolve_path(root)
             state  == sources[source]
             dest   == destination(root)
         IN  IF state = "absent"
             THEN copy_roots(artifact_roots, sources, k + 1,
                             [acc EXCEPT !.missing = Append(@, root)])
             ELSE IF state = "file"
             THEN copy_roots(artifact_roots, sources, k + 1,
                             [acc EXCEPT !.tree = copy2(@, source, dest, k)])
             ELSE IF \E e \in acc.tree : e.path = dest /\ e.kind = "file"
             THEN [acc EXCEPT !.ok = FALSE]
             ELSE copy_roots(artifact_roots, sources, k + 1,
                             [acc EXCEPT !.tree = copytree(rmtree(@, dest), state, dest, k)])

\* the artifacts directory after the call, the list of its regular files and
\* the missing roots; or the exception
copy_surface_artifacts_tree(artifact_roots, sources) ==
    LET done == copy_roots(artifact_roots, sources, 1,
                           [ok |-> TRUE, tree |-> {}, missing |-> <<>>])
    IN  IF ~done.ok THEN Raised("Not a directory")
        ELSE Returned([tree      |-> done.tree,
                       artifacts |-> {e.path : e \in {x \in done.tree : x.kind = "file"}},
                       missing   |-> done.missing])

\* declared roots: x spelled three ways, /x, a file named "x\", and y
CopyRootNames ==
    {<<"x">>, <<"x", "/">>, <<".", "/", "x">>, <<"/", "x">>, <<"x", "\\">>, <<"y">>}

CopySources == {resolve_path(r) : r \in CopyRootNames}

copy_call ==
    /\ cpPc = "ready"
    /\ LET r == copy_surface_artifacts_tree(cpRoots, cpSources)
       IN  /\ cpPc' = IF r.ok THEN "returned" ELSE "raised"
           /\ cpOut' = r.parsed
    /\ UNCHANGED <<cpRoots, cpSources, ldVars, runVars, rtVars, plVars, mxVars>>

InitCopy ==
    /\ cpRoots \in SeqsUpTo(CopyRootNames, MaxRoots)
    /\ cpSources \in [CopySources -> CopyStates]
    /\ cpPc = "ready" /\ cpOut = <<>>
    /\ LoadIdle /\ RunIdle /\ RetryIdle /\ PoolIdle /\ MatrixIdle

NextCopy == copy_call

SpecCopy == InitCopy /\ [][NextCopy]_vars

(***************************************************************************)
(* Claims about the loaders (checked under SpecLoad).                      *)
(***************************************************************************)
LdEntries == IF ldRaw.isObj /\ ldRaw.units.k = "list" THEN ldRaw.units.items ELSE <<>>

EmptyStr(x)  == x.k = "str" /\ x.s = <<>>
EmptyList(x) == x.k = "list" /\ x.items = <<>>

\* the defects the claim lists, read off the document alone
EntryDefect(e) ==
    /\ e.isObj
    /\ IF ldForm = "command"
       THEN \/ EmptyStr(e.name)
            \/ EmptyList(e.args)
            \/ (e.expected_exit_code.k = "int" /\ e.expected_exit_code.n < 0)
            \/ EmptyStr(e.stdout_contains)
            \/ EmptyStr(e.stderr_contains)
       ELSE \/ EmptyStr(e.id)
            \/ EmptyStr(e.script)
            \/ EmptyList(e.artifact_roots)

ManifestDefect ==
    \/ ~ldRaw.isObj
    \/ ldRaw.schema_version.k # "int"
    \/ ldRaw.schema_version.n # 1
    \/ ldRaw.units.k # "list"
    \/ ldRaw.units.items = <<>>
    \/ \E i \in 1..Len(LdEntries) : EntryDefect(LdEntries[i])

\* C9: a manifest that is not an object, whose schema_version is absent or not
\* 1, whose unit list is missing, not a list or empty, or that holds a unit with
\* an empty name, empty args/script/artifact_roots, a negative
\* expected_exit_code or an empty-string stdout_contains/stderr_contains is
\* rejected and nothing is returned; an omitted expected_exit_code loads as 0.
C9_LoadRejectsDefects ==
    ldPc # "ready" =>
        /\ ManifestDefect => (ldPc = "raised" /\ ldOut = <<>>)
        /\ (ldPc = "returned" /\ ldForm = "command") =>
               \A i \in 1..Len(LdEntries) :
                   LdEntries[i].expected_exit_code.k = "absent"
                       => ldOut[i].expected_exit_code = 0

\* a rejected two-entry manifest whose first entry alone would have loaded, and
\* whose second entry carries a negative expected_exit_code
C9_Witness ==
    /\ ldPc = "raised" /\ ldForm = "command" /\ Len(LdEntries) = 2
    /\ command_error(LdEntries[1]) = ""
    /\ LdEntries[2].expected_exit_code = JInt(-1)

LoadedNames ==
    [i \in 1..Len(ldOut) |->
        IF ldForm = "command" THEN ldOut[i].name ELSE ldOut[i].surface_id]

\* C10: every successfully loaded unit list, command form or surface form, has
\* pairwise distinct names (a manifest with a repeated name is rejected).
C10_LoadedNamesDistinct ==
    ldPc = "returned" =>
        \A i, j \in 1..Len(ldOut) : i # j => LoadedNames[i] # LoadedNames[j]

(***************************************************************************)
(* Claims about a run (checked under Spec).                                *)
(***************************************************************************)
Terminated == pc \notin {"start", "build", "loop", "wait"}

\* main() got as far as its loop over the units
ExecutionBegun == pc \in {"loop", "wait", "script_missing", "done"}

UnitName(u) ==
    IF runner = "live" THEN u.surface_id ELSE IF runner = "smoke" THEN u.name ELSE u

UnitNames(n) == [i \in 1..n |-> UnitName(units[i])]

AllPassed == \A i \in 1..Len(results) : results[i].status = "passed"
SomeFailed == \E i \in 1..Len(results) : results[i].status = "failed"

\* C1: in fail-fast mode (keep_going false) no unit is started after a unit
\* that failed: a failed result is the last result and the last unit started,
\* the units started are the first units of the selection in order, and the
\* report lists exactly the units up to and including the first failing one,
\* with nothing recorded for the units after it.
C1_FailFastPrefix ==
    ~cli.keep_going =>
      /\ \A i \in 1..Len(results) :
           results[i].status = "failed" => i = Len(results) /\ Len(started) = i
      /\ Len(started) <= Len(units)
      /\ started = UnitNames(Len(started))
      /\ (report.written /\ report.kind = "run") =>
           /\ report.names = UnitNames(Len(results))
           /\ report.total = Len(results)
           /\ report.failed <= 1
           /\ Len(results) < Len(units) => results[Len(results)].status = "failed"

C1_Witness ==
    /\ ~cli.keep_going /\ pc = "done" /\ report.written
    /\ Len(units) = 2 /\ Len(results) = 1 /\ results[1].status = "failed"
    /\ report.names = UnitNames(1)

\* C2: in continue mode every selected unit is executed exactly once whatever
\* the earlier units did, so an invocation that began executing units ends
\* with every unit started once, in order, and a report whose total is the
\* number of selected units.
C2_KeepGoingRunsAll ==
    (cli.keep_going /\ ExecutionBegun /\ Terminated) =>
      /\ started = UnitNames(Len(units))
      /\ Len(results) = Len(units)
      /\ report.written /\ report.total = Len(units)

\* position of a name in the inventory of all.sh
InventoryPos(name) == CHOOSE k \in 1..Len(manifest) : manifest[k] = name

\* the name the manifest file declares at position i
DeclaredName(i) ==
    IF runner = "live" THEN strip(manifest.units.items[i].id.s)
    ELSE strip(manifest.units.items[i].name.s)

InDeclarationOrder(names) ==
    IF runner = "all"
    THEN /\ \A i \in 1..Len(names) :
              /\ \E k \in 1..Len(manifest) : manifest[k] = names[i]
              /\ cli.only_given => \E k \in 1..Len(cli.only) : cli.only[k] = names[i]
         /\ \A i, j \in 1..Len(names) :
              i < j => InventoryPos(names[i]) < InventoryPos(names[j])
    ELSE \A i \in 1..Len(names) : names[i] = DeclaredName(i)

\* C3: units are started in the order the manifest declares them, and the
\* report lists the executed units in that order, whatever the order of the
\* names given to --only.
C3_ManifestOrder ==
    /\ InDeclarationOrder(started)
    /\ (report.written /\ report.kind = "run") =>
         /\ InDeclarationOrder(report.names)
         /\ report.names = started

C3_Witness ==
    /\ runner = "all" /\ cli.only_given /\ cli.only = <<<<"b">>, <<"a">>>>
    /\ pc = "done" /\ report.written
    /\ started = <<<<"a">>, <<"b">>>> /\ report.names = started

\* C4: for a run that executed units, the exit code is 0 and the overall
\* status passed exactly when every executed unit succeeded, and the exit
\* code is 1 exactly when some executed unit failed.
C4_ExitCodeIffOutcome ==
    (Terminated /\ results # <<>>) =>
      /\ exitCode = 0 <=> AllPassed
      /\ exitCode = 1 <=> SomeFailed
      /\ report.written => (report.status = "passed" <=> AllPassed)

C6_EndsWithReport ==
    ExecutionBegun =>
      /\ Terminated =>
           /\ pc = "done" /\ report.written
           /\ runner = "live" =>
                {OnDisk(<<>>, "manifest.json", 0), OnDisk(<<>>, "report.json", 0)}
                    \subseteq fs.files
      /\ ~Terminated => ENABLED Next

OnlyNamesUnknown ==
    /\ cli.only_given
    /\ \E i \in 1..Len(cli.only) : \A k \in 1..Len(manifest) : manifest[k] # cli.only[i]

\* C7: when --only names a unit that is not in the manifest, the run ends
\* with exit code 2 as a selection error before execution: no unit is
\* started, the known names of the list included, nothing is recorded, and
\* no file or directory is created.
C7_UnknownOnlyStartsNothing ==
    (runner = "all" /\ OnlyNamesUnknown) =>
      /\ pc \in {"start", "timeout_error", "selection_error"}
      /\ started = <<>> /\ results = <<>> /\ child = "none"
      /\ fs \in InitialFs /\ ~report.written
      /\ pc # "start" => exitCode = 2

C7_Witness ==
    /\ runner = "all" /\ cli.only = <<<<"a">>, Unknown>>
    /\ pc = "selection_error" /\ exitCode = 2
    /\ started = <<>> /\ fs \in InitialFs

\* C8: every usage or validation error (invalid manifest, unknown --only
\* name, missing option value, invalid timeout value) ends the orchestrator
\* with exit code 2, and no unit has been started.
C8_UsageErrorsExitTwo ==
    pc \in {"usage_error", "manifest_error", "selection_error", "timeout_error"} =>
      exitCode = 2 /\ started = <<>>

\* what is wrong with the manifest file handed to a run, read off the file
RunManifestDefective ==
    /\ runner \in {"live", "smoke"}
    /\ \/ ~manifest.isObj
       \/ manifest.schema_version # JInt(1)
       \/ manifest.units.k # "list"
       \/ manifest.units.items = <<>>

\* C11: a manifest load that fails leaves no unit list, not even the entries
\* before the offending one, and no execution state: no unit and no build
\* was started, nothing was recorded, and the log or output directory is
\* neither created nor cleared.
C11_FailedLoadNoEffects ==
    (pc = "manifest_error" \/ RunManifestDefective) =>
      /\ pc \in {"start", "usage_error", "manifest_error"}
      /\ units = <<>> /\ started = <<>> /\ results = <<>>
      /\ child = "none" /\ idx = 0
      /\ fs \in InitialFs /\ ~report.written

\* a surface manifest rejected at its second entry, with an output directory
\* of an earlier invocation still holding its file
C11_Witness ==
    /\ runner = "live" /\ pc = "manifest_error"
    /\ manifest.isObj /\ Len(manifest.units.items) = 2
    /\ surface_error(manifest.units.items[1], {}) = ""
    /\ units = <<>> /\ fs = [exists |-> TRUE, files |-> {Leftover}]

(***************************************************************************)
(* Claims about the retry helper (checked under SpecRetry).                *)
(***************************************************************************)
PolicyValid ==
    /\ rtPolicy.max_attempts >= 1
    /\ 0 <= rtPolicy.base_delay_seconds
    /\ rtPolicy.base_delay_seconds <= rtPolicy.cap_delay_seconds
    /\ rtPolicy.max_total_delay_seconds >= 0

\* min(base * 2^(k-1), cap)
ExpectedDelay(k) ==
    LET grown == rtPolicy.base_delay_seconds * (2 ^ (k - 1)) IN
    IF grown <= rtPolicy.cap_delay_seconds THEN grown ELSE rtPolicy.cap_delay_seconds

ExpectedDelays == [k \in 1..(rtPolicy.max_attempts - 1) |-> ExpectedDelay(k)]

RECURSIVE ExpectedTotal(_)
ExpectedTotal(k) == IF k <= 0 THEN 0 ELSE ExpectedDelay(k) + ExpectedTotal(k - 1)

PlannedTotal == ExpectedTotal(rtPolicy.max_attempts - 1)

\* C12: for every valid policy (max_attempts n >= 1, 0 <= base <= cap)
\* compute_retry_delays returns exactly n-1 values, the k-th being
\* min(base * 2^(k-1), cap); every value is at most cap and the values never
\* decrease.  The report carries these values.
C12_RetryDelays ==
    (rtPc # "idle" /\ PolicyValid) =>
      LET delays == compute_retry_delays(rtPolicy) IN
      /\ Len(delays) = rtPolicy.max_attempts - 1
      /\ \A k \in 1..Len(delays) :
           /\ delays[k] = ExpectedDelay(k)
           /\ delays[k] <= rtPolicy.cap_delay_seconds
           /\ k > 1 => delays[k - 1] <= delays[k]
      /\ rtReport.made => rtReport.retry_delays_seconds = delays

\* three attempts, base 2, cap 2: the second delay is capped
C12_Witness ==
    /\ rtPc = "report" /\ rtPolicy.max_attempts = 3
    /\ rtPolicy.base_delay_seconds = 2 /\ rtPolicy.cap_delay_seconds = 2
    /\ rtReport.retry_delays_seconds = <<2, 2>>

\* C13: success_attempt is the 1-based position of the first outcome equal
\* to success, absent (0) when there is none; status is success exactly when
\* it is present; mode is first_attempt_success for 1, resolved_after_retry
\* for more than 1 and checkout_retries_exhausted when it is absent.
C13_SuccessAttempt ==
    (rtPc # "idle" /\ rtReport.made) =>
      LET sa == rtReport.success_attempt
          os == rtReport.outcomes
      IN /\ sa \in 0..Len(os)
         /\ sa = 0 <=> \A i \in 1..Len(os) : os[i] # sSuccess
         /\ sa # 0 => os[sa] = sSuccess /\ \A j \in 1..(sa - 1) : os[j] # sSuccess
         /\ rtReport.status = (IF sa # 0 THEN "success" ELSE "failure")
         /\ rtReport.mode = (IF sa = 0 THEN "checkout_retries_exhausted"
                             ELSE IF sa = 1 THEN "first_attempt_success"
                             ELSE "resolved_after_retry")

\* failure, success, success: the first success counts
C13_Witness ==
    /\ rtPc = "report" /\ rtReport.outcomes = <<sFailure, sSuccess, sSuccess>>
    /\ rtReport.success_attempt = 2 /\ rtReport.mode = "resolved_after_retry"

\* C14: actual_total_delay is the sum of the first success_attempt - 1 retry
\* delays (zero for a success on attempt 1) and the whole planned total when
\* no outcome is success; it never exceeds planned_total_delay.
C14_ActualDelay ==
    (rtPc # "idle" /\ rtReport.made) =>
      LET sa == rtReport.success_attempt IN
      /\ rtReport.planned_total_delay_seconds = PlannedTotal
      /\ rtReport.actual_total_delay_seconds =
            (IF sa = 0 THEN PlannedTotal ELSE ExpectedTotal(sa - 1))
      /\ sa = 1 => rtReport.actual_total_delay_seconds = 0
      /\ rtReport.actual_total_delay_seconds <= rtReport.planned_total_delay_seconds

\* failure then success with delays 1, 2: only the first delay was incurred
C14_Witness ==
    /\ rtPc = "report" /\ rtReport.retry_delays_seconds = <<1, 2>>
    /\ rtReport.success_attempt = 2
    /\ rtReport.actual_total_delay_seconds = 1
    /\ rtReport.planned_total_delay_seconds = 3

\* the outcome an entry of --outcomes stands for; <<>> for a blank entry
EntryWord(e) ==
    IF \A i \in 1..Len(e) : e[i] = " " THEN <<>>
    ELSE IF e = <<" ", "S", "U", "C", "C", "E", "S", "S", " ">> THEN sSuccess
    ELSE e

GivenOutcomes ==
    LET words == [i \in 1..Len(rtArgs.outcomes) |-> EntryWord(rtArgs.outcomes[i])]
    IN SelectSeq(words, LAMBDA w : w # <<>>)

\* C15: the normalised outcomes have length exactly max_attempts: a shorter
\* list is padded on the right with skipped, the given outcomes keeping their
\* positions; a list longer than max_attempts ends the run in an error and no
\* report is produced.
C15_NormalizedLength ==
    /\ rtPc \in {"outcomes", "report", "checked", "done"} =>
         /\ Len(rtOutcomes) = rtPolicy.max_attempts
         /\ ~rtArgs.dry_run =>
              /\ Len(GivenOutcomes) <= rtPolicy.max_attempts
              /\ \A i \in 1..Len(rtOutcomes) :
                   rtOutcomes[i] = (IF i <= Len(GivenOutcomes) THEN GivenOutcomes[i]
                                    ELSE sSkipped)
    /\ (rtPc \notin {"idle", "start"} /\ PolicyValid /\ ~rtArgs.dry_run
          /\ Len(GivenOutcomes) > rtPolicy.max_attempts) =>
         /\ rtPc \in {"policy", "raised"}
         /\ ~rtReport.made /\ rtEmitted = NoEmission
         /\ rtPc = "raised" => rtExit # 0

\* a blank entry is dropped, the one outcome given is padded to three
C15_Witness ==
    /\ rtPc = "outcomes" /\ ~rtArgs.dry_run /\ rtPolicy.max_attempts = 3
    /\ rtArgs.outcomes = <<<<" ">>, sFailure>>
    /\ rtOutcomes = <<sFailure, sSkipped, sSkipped>>

\* C16: a policy whose planned total delay exceeds max_total_delay_seconds is
\* rejected with an error whatever the outcomes are, a first-attempt success
\* included: nothing is printed or written, the run ends with a non-zero
\* status, and the delays are not reduced to fit the budget.
C16_BudgetOverrunRejected ==
    (rtPc # "idle" /\ PolicyValid /\ PlannedTotal > rtPolicy.max_total_delay_seconds) =>
      /\ rtPc \in {"start", "policy", "outcomes", "report", "raised"}
      /\ rtEmitted = NoEmission
      /\ rtReport.made =>
           /\ rtReport.retry_delays_seconds = ExpectedDelays
           /\ rtReport.planned_total_delay_seconds > rtPolicy.max_total_delay_seconds
      /\ rtPc = "raised" => ~rtReport.made /\ rtExit = 1

\* a success on the first attempt, planned total 4 over a budget of 2
C16_Witness ==
    /\ rtPc = "raised" /\ PolicyValid /\ ~rtArgs.dry_run
    /\ rtArgs.outcomes = <<sSuccess>> /\ rtPolicy.max_attempts = 3
    /\ PlannedTotal = 4 /\ rtPolicy.max_total_delay_seconds = 2
    /\ rtEmitted = NoEmission

\* C17: for a valid policy within budget the helper exits 0 exactly when the
\* report status is success or --dry-run is set, and exits 1 otherwise; a dry
\* run evaluates max_attempts skipped outcomes, so its report has status
\* failure while the exit status is 0.
C17_RetryExitCode ==
    (rtPc \in {"done", "raised"} /\ PolicyValid
        /\ PlannedTotal <= rtPolicy.max_total_delay_seconds) =>
      /\ rtExit \in {0, 1}
      /\ rtExit = 0 <=>
           \/ rtArgs.dry_run
           \/ rtEmitted.stdout.made /\ rtEmitted.stdout.status = "success"
      /\ rtArgs.dry_run =>
           /\ rtPc = "done"
           /\ rtEmitted.stdout.outcomes = [i \in 1..rtPolicy.max_attempts |-> sSkipped]
           /\ rtEmitted.stdout.status = "failure"

C17_Witness ==
    /\ rtPc = "done" /\ rtArgs.dry_run /\ rtPolicy.max_attempts = 3
    /\ rtEmitted.stdout.status = "failure" /\ rtExit = 0

(***************************************************************************)
(* Claims about the worker-pool runner (checked under SpecPool).           *)
(***************************************************************************)
\* C18: the reported result list is in ascending order of the module path
\* that is reported, for every worker count, 1 included, and whatever the
\* order in which the modules finished.
C18_CanonicalOrder ==
    plPc = "done" =>
      \A i, j \in 1..Len(plReported) :
        i < j => StrLess(plReported[i].path, plReported[j].path)

\* C19: every submitted module is executed exactly once and contributes
\* exactly one result, at most `workers` modules run at the same time, a
\* module that fails neither cancels nor skips a sibling, and the runner
\* exits 1 exactly when some module returned a non-zero code (0 otherwise).
C19_PoolRunsEachOnce ==
    plPc \in {"running", "done"} =>
      /\ Cardinality(plRunning) <= plArgs.workers
      /\ \A i \in 1..Len(plModules) : plRuns[i] <= 1
      /\ Len(plResults) + Cardinality(plRunning)
            = Cardinality({i \in 1..Len(plModules) : plRuns[i] = 1})
      /\ \A i \in 1..Len(plModules) :
           Cardinality({k \in 1..Len(plResults) :
                          plResults[k].path = PathStr(plModules[i])})
             = (IF plRuns[i] = 1 /\ i \notin plRunning THEN 1 ELSE 0)
      /\ plPc = "done" =>
           /\ \A i \in 1..Len(plModules) : plRuns[i] = 1
           /\ Len(plReported) = Len(plModules)
           /\ {plReported[k].path : k \in 1..Len(plReported)}
                = {PathStr(f) : f \in glob(plArgs.files, plArgs.pattern)}
           /\ plExit = 1 <=> \E k \in 1..Len(plReported) : plReported[k].return_code # 0
           /\ plExit = 0 <=> \A k \in 1..Len(plReported) : plReported[k].return_code = 0

\* two workers, three modules, the first one collected failed and the
\* other two ran and passed; two modules were running at once on the way
C19_Witness ==
    /\ plPc = "done" /\ plArgs.workers = 2 /\ Len(plModules) = 3
    /\ plResults[1].return_code # 0
    /\ plResults[2].return_code = 0 /\ plResults[3].return_code = 0
    /\ plResults[1].path # plReported[1].path
    /\ plExit = 1

HasDiagnostic(result, text) ==
    \E k \in 1..Len(result.diagnostics) : result.diagnostics[k] = text

AllScriptsExitedZero == \A i \in 1..Len(results) : results[i].exit_code = 0

\* C20: a surface whose script exits 0 has status passed also when declared
\* artifact roots are missing or no artifact was copied; the condition shows
\* only as a diagnostic of that surface, and the overall status and the exit
\* code of a finished run depend on the scripts' exit codes alone.
C20_ArtifactWarningsNonFatal ==
    runner = "live" =>
      /\ \A i \in 1..Len(results) :
           results[i].exit_code = 0 =>
             /\ results[i].status = "passed"
             /\ results[i].missing_artifact_roots # <<>>
                  <=> HasDiagnostic(results[i], "missing expected artifact roots")
             /\ results[i].artifacts = 0
                  <=> HasDiagnostic(results[i], "surface run produced no copied artifacts")
      /\ pc = "done" =>
           /\ report.status = "passed" <=> AllScriptsExitedZero
           /\ exitCode = 0 <=> AllScriptsExitedZero

\* a finished run whose only surface exited 0 with its root missing and
\* nothing copied
C20_Witness ==
    /\ runner = "live" /\ pc = "done" /\ Len(results) = 1
    /\ results[1].exit_code = 0 /\ results[1].artifacts = 0
    /\ results[1].missing_artifact_roots # <<>>
    /\ Len(results[1].diagnostics) = 2
    /\ report.status = "passed" /\ exitCode = 0

ArtifactDiagnosed(result) ==
    \/ HasDiagnostic(result, "missing expected artifact roots")
    \/ HasDiagnostic(result, "surface run produced no copied artifacts")

\* C21 (as amended): a command unit succeeded exactly when its list of
\* expectation failures is empty, and a surface unit succeeded exactly when
\* its exit code is 0, whether or not it carries a missing-artifact-root or
\* an empty-artifact diagnostic.
C21_SucceededDerivation ==
    \A i \in 1..Len(results) :
      /\ results[i].status \in {"passed", "failed"}
      /\ runner = "smoke" =>
           (results[i].status = "passed" <=> results[i].diagnostics = <<>>)
      /\ runner = "live" =>
           (results[i].status = "passed" <=> results[i].exit_code = 0)

\* a surface that exited 0 with a declared root missing, reported as passed
C21_Witness ==
    /\ runner = "live" /\ Len(results) >= 1
    /\ results[1].exit_code = 0 /\ results[1].status = "passed"
    /\ HasDiagnostic(results[1], "missing expected artifact roots")

\* C21 (as stated): a command unit succeeded exactly when its list of
\* expectation failures is empty, and a surface unit succeeded exactly when
\* its exit code is 0 and it carries neither a missing-artifact-root nor an
\* empty-artifact diagnostic.
C21_Original ==
    \A i \in 1..Len(results) :
      /\ runner = "smoke" =>
           (results[i].status = "passed" <=> results[i].diagnostics = <<>>)
      /\ runner = "live" =>
           (results[i].status = "passed"
              <=> results[i].exit_code = 0 /\ ~ArtifactDiagnosed(results[i]))

\* `sub` occurs in `text`
Occurs(sub, text) ==
    \E i \in 0..Len(text) : \E j \in i..Len(text) : SubSeq(text, i + 1, j) = sub

ExitCodeUnmet(i) == results[i].exit_code # units[i].expected_exit_code

StdoutUnmet(i) ==
    /\ units[i].stdout_contains.k = "str"
    /\ ~Occurs(units[i].stdout_contains.s, results[i].stdout)

StderrUnmet(i) ==
    /\ units[i].stderr_contains.k = "str"
    /\ ~Occurs(units[i].stderr_contains.s, results[i].stderr)

Truth(b) == IF b THEN 1 ELSE 0

\* C22: a command unit fails exactly when its exit code differs from
\* expected_exit_code, or a declared stdout_contains does not occur in its
\* stdout, or a declared stderr_contains does not occur in its stderr; each
\* unmet expectation adds one entry, named after it, to expectation_failures;
\* a unit that exits with its expected non-zero code and meets its substring
\* expectations passes.
C22_ExpectationFailures ==
    runner = "smoke" =>
      \A i \in 1..Len(results) :
        /\ results[i].status = "failed"
             <=> (ExitCodeUnmet(i) \/ StdoutUnmet(i) \/ StderrUnmet(i))
        /\ Len(results[i].diagnostics)
             = Truth(ExitCodeUnmet(i)) + Truth(StdoutUnmet(i)) + Truth(StderrUnmet(i))
        /\ ExitCodeUnmet(i) <=> HasDiagnostic(results[i], "exit-code-mismatch")
        /\ StdoutUnmet(i) <=> HasDiagnostic(results[i], "stdout-missing-substring")
        /\ StderrUnmet(i) <=> HasDiagnostic(results[i], "stderr-missing-substring")

\* a command expected to exit 7 with "ok" on both streams does so and passes
C22_Witness ==
    /\ runner = "smoke" /\ Len(results) >= 1
    /\ units[1].expected_exit_code = 7 /\ results[1].exit_code = 7
    /\ units[1].stdout_contains.k = "str" /\ units[1].stderr_contains.k = "str"
    /\ results[1].status = "passed" /\ results[1].diagnostics = <<>>

\* C23: an executing invocation clears and recreates its top-level output or
\* log directory at its start, so a finished run's directory holds only files
\* of that invocation and nothing of an earlier run, for the command
\* runner's log directory as for the surface runner's output directory.
C23_DirectoryOwned ==
    (runner \in {"live", "smoke"} /\ pc \in {"loop", "wait", "done"}) =>
      /\ fs.exists
      /\ Leftover \notin fs.files

\* C24: a --timeout-seconds value that is not positive, zero as well as
\* negative, is rejected before any unit executes: no build and no unit is
\* started and the invocation ends in an error.
C24_NonPositiveTimeoutRejected ==
    (runner \in {"live", "all"} /\ ~cli.usage_error /\ ~cli.list
        /\ cli.timeout_given /\ cli.timeout_seconds <= 0) =>
      /\ started = <<>> /\ results = <<>>
      /\ pc \in {"start", "manifest_error", "timeout_error"}
      /\ pc # "start" => exitCode # 0

\* C25: with --list the orchestrator loads the manifest, prints the
\* inventory in manifest order and exits 0; no unit is executed, no build is
\* started and the output directory is neither cleared nor created.
C25_ListOnly ==
    (runner = "live" /\ ~cli.usage_error /\ cli.list) =>
      /\ pc \in {"start", "listed", "manifest_error"}
      /\ started = <<>> /\ results = <<>> /\ child = "none"
      /\ fs \in InitialFs
      /\ pc = "listed" =>
           /\ exitCode = 0 /\ report.kind = "list"
           /\ Len(report.names) = Len(manifest.units.items)
           /\ \A i \in 1..Len(report.names) : report.names[i] = DeclaredName(i)

\* surfaces b, a listed in that order, an earlier run's directory untouched
C25_Witness ==
    /\ runner = "live" /\ pc = "listed" /\ exitCode = 0
    /\ report.names = <<<<"b">>, <<"a">>>>
    /\ fs = [exists |-> TRUE, files |-> {Leftover}]

(***************************************************************************)
(* Claims about live_smoke_matrix.py (checked under SpecMatrix).           *)
(***************************************************************************)
MatrixKey == lower(strip(mxArgs.surface))

\* the wrappers and artifact directories test_live_smoke_matrix.py expects
LiveWrapperOf(key) ==
    CASE key = kBrowser       -> "scripts/demo/browser-automation-live.sh"
      [] key = kDashboard     -> "scripts/demo/dashboard-live.sh"
      [] key = kCustomCommand -> "scripts/demo/custom-command-live.sh"

NonLiveWrapperOf(key) ==
    CASE key = kBrowser       -> "scripts/demo/browser-automation.sh"
      [] key = kDashboard     -> "scripts/demo/dashboard.sh"
      [] key = kCustomCommand -> "scripts/demo/custom-command.sh"

LiveDirOf(key) ==
    CASE key = kBrowser       -> ".tau/demo-browser-automation-live"
      [] key = kDashboard     -> ".tau/demo-dashboard-live"
      [] key = kCustomCommand -> ".tau/demo-custom-command-live"

NonLiveDirOf(key) ==
    CASE key = kBrowser       -> ".tau/demo-browser-automation"
      [] key = kDashboard     -> ".tau/demo-dashboard"
      [] key = kCustomCommand -> ".tau/demo-custom-command"

Listed(dirs, d) == \E i \in 1..Len(dirs) : dirs[i] = d

NothingEmitted ==
    mxFiles.output = <<>> /\ mxFiles.summary = <<>> /\ mxStdout = <<>>

\* C26: for browser, dashboard and custom-command the resolved plan has the
\* live wrapper as primary and the non-live wrapper as fallback and lists both
\* the live and the non-live artifact directory; an unknown surface key is
\* rejected with an error before any output is written.
C26_LiveWrapperPlans ==
    /\ (mxPc \in {"resolved", "done"}
          /\ MatrixKey \in {kBrowser, kDashboard, kCustomCommand})
       => /\ mxPlan.primary_wrapper = LiveWrapperOf(MatrixKey)
          /\ mxPlan.fallback_wrapper = NonLiveWrapperOf(MatrixKey)
          /\ Listed(mxPlan.artifact_dirs, LiveDirOf(MatrixKey))
          /\ Listed(mxPlan.artifact_dirs, NonLiveDirOf(MatrixKey))
    /\ (mxPc # "start" /\ MatrixKey \notin SurfaceKeys)
       => mxPc = "raised" /\ mxExit # 0 /\ NothingEmitted

\* a unit process exists: main() is blocked in subprocess.run
UnitProcessAlive == child \in {"running", "hung"}

\* the step spawns the process of the next unit
StartsUnit == Len(started') = Len(started) + 1

\* every result appended so far is still there, unchanged
ResultsKept ==
    /\ Len(results') >= Len(results)
    /\ \A i \in 1..Len(results) : results'[i] = results[i]

\* C27: units run strictly one after another: at most one unit process exists
\* at any time, unit i+1 is started only after unit i has terminated and its
\* result has been appended, and appended results are never changed.
C27_Sequential ==
    /\ [](UnitProcessAlive => Len(started) = Len(results) + 1)
    /\ [](~UnitProcessAlive /\ ~Terminated => Len(started) = Len(results))
    /\ [][/\ StartsUnit => /\ ~UnitProcessAlive
                           /\ Len(results) = Len(started)
                           /\ UnitProcessAlive'
                           /\ results' = results
          /\ ResultsKept
          /\ Len(results') <= Len(results) + 1]_vars

C27_Witness ==
    /\ runner \in {"smoke", "live"}
    /\ Len(results) = 1 /\ Len(started) = 2 /\ UnitProcessAlive

\* what unit i writes: its two logs and, for a surface, its artifacts directory
UnitPaths(i) ==
    IF runner = "live"
    THEN {OnDisk(surface_dir(units[i]), b, 0) : b \in {"stdout.log", "stderr.log", "artifacts"}}
    ELSE {smoke_log(i, units[i], b) : b \in {"stdout.log", "stderr.log"}}

LeafChars(b) ==
    CASE b = "artifacts"  -> <<"a", "r", "t", "i", "f", "a", "c", "t", "s">>
      [] b = "stdout.log" -> <<"s", "t", "d", "o", "u", "t", ".", "l", "o", "g">>
      [] b = "stderr.log" -> <<"s", "t", "d", "e", "r", "r", ".", "l", "o", "g">>

\* path q lies below path p (surface paths; the smoke logs share one flat directory)
NestedIn(q, p) ==
    /\ runner = "live"
    /\ Len(q.dir) > Len(p.dir)
    /\ SubSeq(q.dir, 1, Len(p.dir)) = p.dir
    /\ q.dir[Len(p.dir) + 1] = LeafChars(p.base)

\* C28: within one invocation no two executed units write the same path: the
\* stdout log, stderr log and artifacts directory of each unit are distinct
\* from, and not nested inside, those of every other unit.
C28_PathsPartitioned ==
    runner \in {"live", "smoke"} =>
      \A i, j \in 1..Len(started) :
        i # j => \A p \in UnitPaths(i) : \A q \in UnitPaths(j) :
                   p # q /\ ~NestedIn(q, p)

\* the entries of the result list that failed, counted one by one
FailedEntries == {i \in 1..Len(results) : results[i].status = "failed"}

\* a run of one of the python runners that got to its report
Reported == runner \in {"live", "smoke"} /\ pc = "done" /\ report.kind = "run"

\* report.json says of every surface what manifest.json says of it
ReportAgreesWithManifest ==
    /\ Len(report.surfaces) = Len(results)
    /\ \A i \in 1..Len(results) :
         /\ report.surfaces[i].surface_id = results[i].name
         /\ report.surfaces[i].status = results[i].status
         /\ results[i].name \in DOMAIN report.surface_status
         /\ report.surface_status[results[i].name].status = report.surfaces[i].status
    /\ DOMAIN report.surface_status = {results[i].name : i \in 1..Len(results)}
    /\ Len(report.failed_names) = Cardinality(FailedEntries)
    /\ \A k \in 1..Len(report.failed_names) :
         \E i \in FailedEntries : report.failed_names[k] = results[i].name
    /\ \A i \in FailedEntries :
         \E k \in 1..Len(report.failed_names) : report.failed_names[k] = results[i].name

\* C29: every figure of the report derives from the one result list: total is
\* the number of entries, passed + failed = total, failed is the number of
\* failed entries; report.json of the surface runner agrees with manifest.json;
\* the status of the human-readable summary is pass exactly when failed is 0.
C29_FiguresFromResults ==
    Reported =>
      /\ report.total = Len(results)
      /\ report.passed + report.failed = report.total
      /\ report.failed = Cardinality(FailedEntries)
      /\ runner = "live" => ReportAgreesWithManifest
      /\ (runner = "smoke" /\ report.summary.written)
         => /\ report.summary.status = "pass" <=> report.failed = 0
            /\ report.summary.commands = Len(results)
            /\ report.summary.passed + report.summary.failed = Len(results)
            /\ report.summary.failed = Cardinality(FailedEntries)

C29_Witness ==
    /\ Reported /\ Len(results) = 2 /\ Cardinality(FailedEntries) = 2
    /\ \/ runner = "live"
       \/ runner = "smoke" /\ report.summary.written

(***************************************************************************)
(* Claims about copy_surface_artifacts (checked under SpecCopy).           *)
(***************************************************************************)
RootState(k) == cpSources[resolve_path(cpRoots[k])]

RootAbsent(root) == cpSources[resolve_path(root)] = "absent"

RecordedMissing(k) == \E i \in 1..Len(cpOut.missing) : cpOut.missing[i] = cpRoots[k]

\* the copy root k made is in the artifacts directory, whole
CopyInPlace(k) ==
    LET dest == destination(cpRoots[k]) IN
    CASE RootState(k) = "file" ->
           \E e \in cpOut.tree : e.origin = k /\ e.kind = "file"
      [] RootState(k) = "emptydir" -> Entry(dest, "dir", k) \in cpOut.tree
      [] RootState(k) = "tree" ->
           /\ Entry(dest, "dir", k) \in cpOut.tree
           /\ Entry(dest \o <<<<"f">>>>, "file", k) \in cpOut.tree
      [] OTHER -> FALSE

DistinctRoots == \A j, k \in 1..Len(cpRoots) : j # k => cpRoots[j] # cpRoots[k]

\* C30: every declared artifact root is either copied (it exists) or recorded
\* as missing (it does not), never both and never neither, the missing roots
\* in declaration order; the artifacts list has exactly one entry per regular
\* file under the artifacts directory; distinct roots do not overwrite each
\* other's copies.
C30_CopiedXorMissing ==
    (cpPc \in {"returned", "raised"} /\ DistinctRoots) =>
      /\ cpPc = "returned"
      /\ \A k \in 1..Len(cpRoots) :
           /\ RecordedMissing(k) <=> RootState(k) = "absent"
           /\ CopyInPlace(k) <=> RootState(k) # "absent"
      /\ cpOut.missing = SelectSeq(cpRoots, RootAbsent)
      /\ Cardinality(cpOut.artifacts)
           = Cardinality({e \in cpOut.tree : e.kind = "file"})

====
